---- MODULE Spec2Model ----
(***************************************************************************)
(* bitfx arbitrage engine: the strategy loop (considerTrade), the pair     *)
(* sequencing (sendPair) and the fill-or-kill executor (fillOrKill) of     *)
(* the bitarb program, with the venues as the environment.                 *)
(*                                                                         *)
(* Numbers.  The program computes in float64.  The model is fixed point:   *)
(* amounts and positions are integers in units of one minimum order,       *)
(* order prices are integers in venue ticks and adjusted prices are        *)
(* integers in base-currency units.  A fee is a fraction.  The needed-arb     *)
(* comparison of findBestArb is made exactly, on values multiplied by      *)
(* ArbScale.                                                               *)
(***************************************************************************)
EXTENDS Integers, FiniteSets, Sequences, TLC

\* ------------------------------------------------------------------ bounds
NumExg == 2          \* venues in the exchanges slice
MaxCycles == 2       \* strategy cycles (snapshots consumed) in one run
MaxLive == 1         \* "live" replies a venue gives for one order
MaxRetry == 1        \* id 0 and "" replies (venue errors) for one order
MaxDepth == 2        \* price levels on one side of a venue's book
MaxBooks == 1     \* books each adapter sends; quotes the poller sends
MaxErrors == 2    \* network errors met by one streaming adapter
MaxTicks == 1     \* heartbeat ticks of one streaming adapter

\* --------------------------------------------------------------- constants
MaxFloat64 == 1000000    \* math.MaxFloat64, the start value of findBestAsk
Minute == 60             \* time.Minute, in seconds

Exchanges == 1..NumExg
Nil == 0                 \* the nil exchange.Exchange of a zero market
Actions == {"buy", "sell"}

Min(a, b) == IF a <= b THEN a ELSE b
Abs(a) == IF a < 0 THEN -a ELSE a

\* ------------------------------------------------------------ configuration
\* One venue of setExchanges: priority, fee, max position, currency code and
\* whether buys pay the fee in the crypto asset (okcoin: yes, bitfinex: no).
\* A fee is a fraction <<numerator, denominator>>; the model's okcoin fee is
\* 1/2 so that the reduction of a buy fill is visible at unit resolution.
Bitfinex(prio, cc) ==
    [priority |-> prio, fee |-> <<0, 2>>, maxPos |-> 2, currencyCode |-> cc,
     hasCryptoFee |-> FALSE]
OKCoin(prio, cc) ==
    [priority |-> prio, fee |-> <<1, 2>>, maxPos |-> 2, currencyCode |-> cc,
     hasCryptoFee |-> TRUE]

\* The exchanges slice of the program: bitfinex(usd, priority 2),
\* okcoin(usd, priority 1), okcoin(cny, priority 3), then repeated.
ProdExchanges ==
    [e \in Exchanges |->
        CASE e % 3 = 1 -> Bitfinex(2, 0)
          [] e % 3 = 2 -> OKCoin(1, 0)
          [] OTHER     -> OKCoin(3, 1)]
\* The exchanges of the strategy tests: okcoin venues of equal priority.
TestExchanges == [e \in Exchanges |-> OKCoin(1, 0)]

\* The Config struct
Config(maxArb, minArb, exgs) ==
    [MaxArb |-> maxArb, MinArb |-> minArb, FXPremium |-> 1,
     MinNetPos |-> 1, MinOrder |-> 1, MaxOrder |-> 2, exg |-> exgs]

Configs ==
    { Config(2, -1, ProdExchanges), Config(2, -1, TestExchanges),
      Config(1, -4, ProdExchanges) }

\* ------------------------------------------------------------------- state
VARIABLES
    cfg,          \* Config and the exchanges slice, fixed at start-up
    startPos,     \* positions loaded by setStatus
    position,     \* position field of every exchange
    netPosition,  \* global netPosition
    pl,           \* global pl
    lastArb,      \* considerTrade local
    lastAmount,   \* considerTrade local
    markets,      \* considerTrade local snapshot
    age,          \* per venue, time.Since(fb.time) when the snapshot was built
    bestBid,      \* the bid market of the trade in progress
    bestAsk,      \* the ask market of the trade in progress
    amount,       \* considerTrade amount of the trade in progress
    pairAmount,   \* sendPair's amount parameter (reassigned to the first fill)
    pc,           \* where the strategy goroutine is
    fok,          \* the fillOrKill goroutine of each action
    traded,       \* per venue, the signed fills applied so far (trade log)
    cycles,       \* snapshots consumed
    result,       \* the last call of a function run on its own, as the tests do
    stdin,        \* where the checkStdin goroutine is
    chans,        \* doneChan, fxDoneChan, exgDoneChan (buffered) and newBook
    hub,          \* the handleData goroutine: position, markets, exg requested
    strat,        \* main in considerTrade's snapshot loop and after it
    adapter,      \* per venue, the runLoop goroutine that polls for books
    fx,           \* the handleFX goroutine and the forex runLoop goroutine
    socks,        \* every websocket dialled by a streaming adapter so far
    owner,        \* the goroutine of runLoop that owns ws
    reader,       \* the goroutine of runLoop that reads from the websocket
    heart,        \* runLoop's own loop: done, heartbeat, books out
    net           \* what the network did so far: errors, books, and books out

\* The strategy and its orders
tradeVars == << cfg, startPos, position, netPosition, pl, lastArb, lastAmount,
                markets, age, bestBid, bestAsk, amount, pairAmount, pc, fok,
                traded, cycles, result >>
\* The goroutines around the data hub
hubVars == << stdin, chans, hub, strat, adapter, fx >>
\* The goroutines of a streaming adapter
sockVars == << socks, owner, reader, heart, net >>

vars == << tradeVars, hubVars, sockVars >>

\* No function has been run on its own
NoResult == [op |-> "none"]

\* The data hub when handleData enters its select loop: checkStdin waits for
\* input, no channel holds a value, every venue's first book is stored (books
\* are numbered per venue), main waits on newBook, every adapter and the forex
\* poller are in their loops.
\* forex.Quote; the zero value is Quote(0, "", FALSE)
Quote(price, symbol, err) == [Price |-> price, Symbol |-> symbol, Error |-> err]

\* After the start-up loop of handleFX prices holds 1 for "usd" and the first
\* quote of every polled currency (2 for "cny").
HubStart ==
    /\ stdin = "scan"
    /\ chans = [done |-> 0, fxDone |-> 0, exgDone |-> 0, newBookClosed |-> FALSE]
    /\ hub = [pc |-> "select", markets |-> [e \in Exchanges |-> 0], exg |-> Nil]
    /\ strat = [pc |-> "range", i |-> 1, markets |-> << >>, n |-> 0]
    /\ adapter = [e \in Exchanges |->
                     [pc |-> "select", sent |-> 0, err |-> FALSE, good |-> 0]]
    /\ fx = [pc |-> "select", poller |-> "select", sent |-> 0,
             prices |-> [s \in {"usd", "cny"} |-> IF s = "usd" THEN 1 ELSE 2],
             quote |-> Quote(0, "", FALSE)]

\* A websocket as newWS returns it: dialled, the subscription written
NewSocket(sub) == [open |-> TRUE, sub |-> sub, book |-> "none", pong |-> FALSE]

\* A streaming adapter when CommunicateBook returns: one subscribed socket
\* whose first book has been read, owned by the first goroutine of runLoop
SockStart ==
    /\ socks = << NewSocket(TRUE) >>
    /\ owner = [pc |-> "select", ws |-> 1]
    /\ reader = [pc |-> "askDeadline", h |-> 0, data |-> 0, deadline |-> 0]
    /\ heart = [pc |-> "select", h |-> 0, data |-> 0]
    /\ net = [errors |-> 0, ticks |-> 0, books |-> 0, done |-> FALSE]

\* Accessors of exchange.Exchange
Priority(e) == cfg.exg[e].priority
MaxPos(e) == cfg.exg[e].maxPos
CurrencyCode(e) == cfg.exg[e].currencyCode
HasCryptoFee(e) == cfg.exg[e].hasCryptoFee
Fee(e) == cfg.exg[e].fee

\* ----------------------------------------------------------------- markets
\* The zero value of market: the side filterBook leaves when no prefix of
\* levels reaches MinOrder.
NoMarket == [exg |-> Nil, orderPrice |-> 0, amount |-> 0, adjPrice |-> 0]

Market(e, op, amt, adj) ==
    [exg |-> e, orderPrice |-> op, amount |-> amt, adjPrice |-> adj]

\* What filterBook can hand to the strategy for venue e.  A quoted level L
\* is the adjusted bid (base currency, after fee and FX); the adjusted ask
\* is one unit above; the order prices are the venue's own ticks.
Bid(e, L, a) == Market(e, 10 * L, a, L)
Ask(e, L, a) == Market(e, 10 * L + 1, a, L + 1)
Levels == {2, 4}

FilteredBooks(e) ==
    { [bid |-> Bid(e, L, cfg.MaxOrder), ask |-> Ask(e, L, cfg.MaxOrder)] :
          L \in Levels }
    \cup { [bid |-> NoMarket, ask |-> Ask(e, 2, cfg.MaxOrder)],
           [bid |-> Bid(e, 4, cfg.MaxOrder), ask |-> NoMarket],
           [bid |-> NoMarket, ask |-> NoMarket] }

\* Seconds since the book of a venue was received, when considerTrade asks
\* for it: just under a minute, just over a minute
Ages == {59, 61}
NoAge == [e \in Exchanges |-> 0]

\* (variant: the wrong unit, time.Hour)
Fresh_Hour(t) == t < 60 * Minute

\* "Don't use potentially stale data": time.Since(fb.time) < time.Minute
Fresh(t) == t < Minute

\* The local snapshot of considerTrade: the venues whose book is not stale,
\* each with its filtered book.
Snapshots(S) ==
    { m \in [S -> UNION { FilteredBooks(e) : e \in S }] :
          \A e \in S : m[e] \in FilteredBooks(e) }

\* --------------------------------------------------------------- selection
AbleToSell(e) == position[e] + MaxPos(e)
\* (variant: the remaining buy capacity with the sign of the position slipped)
AbleToBuy_SignSlip(e) == MaxPos(e) + position[e]
AbleToBuy(e) == MaxPos(e) - position[e]

\* findBestBid: the highest adjusted bid among the venues able to sell; the
\* map is ranged in any order and only a strictly higher bid replaces the
\* best one, so any venue with the highest bid can be the result.
FindBestBid(m) ==
    LET cands == { e \in DOMAIN m : /\ AbleToSell(e) >= cfg.MinOrder
                                    /\ m[e].bid.adjPrice > NoMarket.adjPrice }
        best == { e \in cands :
                    \A o \in cands : m[o].bid.adjPrice <= m[e].bid.adjPrice }
    IN  IF cands = {} THEN { NoMarket }
        ELSE { [m[e].bid EXCEPT !.amount = Min(@, AbleToSell(e))] : e \in best }

\* findBestAsk: starts from adjPrice = MaxFloat64 and takes any strictly
\* lower ask of a venue able to buy.
FindBestAsk(m) ==
    LET cands == { e \in DOMAIN m : /\ AbleToBuy(e) >= cfg.MinOrder
                                    /\ m[e].ask.adjPrice < MaxFloat64 }
        best == { e \in cands :
                    \A o \in cands : m[o].ask.adjPrice >= m[e].ask.adjPrice }
    IN  IF cands = {} THEN { [NoMarket EXCEPT !.adjPrice = MaxFloat64] }
        ELSE { [m[e].ask EXCEPT !.amount = Min(@, AbleToBuy(e))] : e \in best }

\* The common denominator of the needed-arb arithmetic: 4 * product of MaxPos
RECURSIVE ProdMaxPos(_)
ProdMaxPos(S) ==
    IF S = {} THEN 1
    ELSE LET e == CHOOSE x \in S : TRUE IN MaxPos(e) * ProdMaxPos(S \ {e})
ArbScale == 4 * ProdMaxPos(Exchanges)

\* (variant: the distance from the center not halved)
CalcNeededArb_FullDist(buyExg, sellExg) ==
    LET center == (ArbScale \div 2) * (cfg.MaxArb + cfg.MinArb)
                  + (IF CurrencyCode(buyExg) # CurrencyCode(sellExg)
                     THEN ArbScale * cfg.FXPremium ELSE 0)
        halfDist == (ArbScale \div 2) * (cfg.MaxArb - cfg.MinArb)
        buyExgPct == (halfDist \div MaxPos(buyExg)) * position[buyExg]
        sellExgPct == (halfDist \div MaxPos(sellExg)) * position[sellExg]
    IN  center + buyExgPct - sellExgPct

\* (variant: the premium added to the center before halfDist is taken)
CalcNeededArb_PremiumFirst(buyExg, sellExg) ==
    LET premium == IF CurrencyCode(buyExg) # CurrencyCode(sellExg)
                   THEN cfg.FXPremium ELSE 0
        center == (ArbScale \div 2) * (cfg.MaxArb + cfg.MinArb)
                  + ArbScale * premium
        halfDist == (ArbScale \div 4) * (cfg.MaxArb - cfg.MinArb)
                    - (ArbScale \div 2) * premium
        buyExgPct == (halfDist \div MaxPos(buyExg)) * position[buyExg]
        sellExgPct == (halfDist \div MaxPos(sellExg)) * position[sellExg]
    IN  center + buyExgPct - sellExgPct

\* calcNeededArb(buyExg, sellExg), multiplied by ArbScale:
\*   center + buyPct*halfDist - sellPct*halfDist
\* with center = (MaxArb+MinArb)/2 (+ FXPremium across currencies) and
\* halfDist = (MaxArb-center)/2 = (MaxArb-MinArb)/4.
CalcNeededArb(buyExg, sellExg) ==
    LET center == (ArbScale \div 2) * (cfg.MaxArb + cfg.MinArb)
                  + (IF CurrencyCode(buyExg) # CurrencyCode(sellExg)
                     THEN ArbScale * cfg.FXPremium ELSE 0)
        halfDist == (ArbScale \div 4) * (cfg.MaxArb - cfg.MinArb)
        buyExgPct == (halfDist \div MaxPos(buyExg)) * position[buyExg]
        sellExgPct == (halfDist \div MaxPos(sellExg)) * position[sellExg]
    IN  center + buyExgPct - sellExgPct

\* opp of findBestArb for selling on exg1 and buying on exg2, times ArbScale
Opp(m, exg1, exg2) ==
    ArbScale * (m[exg1].bid.adjPrice - m[exg2].ask.adjPrice)
    - CalcNeededArb(exg2, exg1)

\* findBestArb: every bid is compared to every ask of the map (the venue's
\* own ask included); a pair replaces the best one when opp >= bestOpp, with
\* bestOpp starting at 0, so the result is any pair of maximal opp >= 0.
\* (variant: every pair of venues, whatever they are able to buy and sell)
ArbPairs_AnyPosition(m) == (DOMAIN m) \X (DOMAIN m)

ArbPairs(m) ==
    { p \in (DOMAIN m) \X (DOMAIN m) : /\ AbleToSell(p[1]) >= cfg.MinOrder
                                   /\ AbleToBuy(p[2]) >= cfg.MinOrder }
FindBestArb(m) ==
    LET good == { p \in ArbPairs(m) : Opp(m, p[1], p[2]) >= 0 }
        best == { p \in good :
                    \A o \in good : Opp(m, o[1], o[2]) <= Opp(m, p[1], p[2]) }
    IN  IF good = {}
        THEN { [bid |-> NoMarket, ask |-> NoMarket, exists |-> FALSE] }
        ELSE { [bid |-> [m[p[1]].bid EXCEPT !.amount = Min(@, AbleToSell(p[1]))],
                ask |-> [m[p[2]].ask EXCEPT !.amount = Min(@, AbleToBuy(p[2]))],
                exists |-> TRUE] : p \in best }

\* ------------------------------------------------------------- fillOrKill
\* One fillOrKill goroutine.  pc: "idle" (not running), "send" (in the send
\* loop), "poll" (about to call GetOrderStatus), "cancel" (about to call
\* CancelOrder), "set" (order dead, position read, about to SetPosition),
\* "deliver" (blocked in the send on its fill channel).
IdleFok ==
    [pc |-> "idle", exg |-> Nil, amount |-> 0, price |-> 0, id |-> 0,
     order |-> [Status |-> "", FilledAmount |-> 0], filledAmount |-> 0,
     posRead |-> 0, nRetry |-> 0, nLive |-> 0, nCancel |-> 0,
     lastCall |-> "", polledId |-> 0]

\* go fillOrKill(exg, action, amount, price, fillChan)
StartFok(e, amt, price) ==
    [IdleFok EXCEPT !.pc = "send", !.exg = e, !.amount = amt, !.price = price]

\* filledAmount * (1 - exg.Fee())
NetOfFee(f, e) == (f * (Fee(e)[2] - Fee(e)[1])) \div Fee(e)[2]

\* (variant: the fee reduction applied to sells as well)
FilledAmount_AnySide(a, e, f) ==
    IF HasCryptoFee(e) THEN NetOfFee(f, e) ELSE f

\* The local filledAmount after the "Update position" branch
FilledAmount(a, e, f) ==
    IF a = "buy" /\ HasCryptoFee(e) THEN NetOfFee(f, e) ELSE f

\* The argument of SetPosition
NewPosition(a, pos, filledAmount) ==
    IF a = "buy" THEN pos + filledAmount ELSE pos - filledAmount

\* (variant: "dead" does not end the loop)
AfterStatus_NoBreak(status) ==
    IF status = "live" THEN "cancel" ELSE "poll"

\* (variant: cancel on every status but "dead")
AfterStatus_CancelUnknown(status) ==
    IF status = "dead" THEN "set" ELSE "cancel"

\* Where the status loop goes on an order status
AfterStatus(status) ==
    CASE status = "live" -> "cancel"
      [] status = "dead" -> "set"
      [] OTHER           -> "poll"

\* Where the send loop goes on an order id
AfterSend(id) == IF id # 0 THEN "poll" ELSE "send"

FokFrame == UNCHANGED << cfg, startPos, netPosition, pl, lastArb, lastAmount,
                         markets, age, bestBid, bestAsk, amount, pairAmount, pc,
                         cycles, result, hubVars, sockVars >>

\* exg.SendOrder(action, "limit", amount, price): the venue answers with an
\* error and id 0, or with the id of the new order.
SendOrder(a) ==
    /\ fok[a].pc = "send"
    /\ \E id \in {0, fok[a].exg} :
          /\ id = 0 => fok[a].nRetry < MaxRetry
          /\ fok' = [fok EXCEPT ![a].id = id,
                                ![a].pc = AfterSend(id),
                                ![a].lastCall = "SendOrder",
                                ![a].nRetry = IF id = 0 THEN @ + 1 ELSE @]
    /\ UNCHANGED << position, traded >>
    /\ FokFrame

\* exg.GetOrderStatus(id): the venue answers "live", "" (or an error, which
\* leaves the zero Order) or "dead" with the filled amount.  On "dead" the
\* goroutine leaves the loop and reads the position it is about to update.
GetOrderStatus(a) ==
    /\ fok[a].pc = "poll"
    /\ \E st \in {"live", "", "dead"}, f \in 0..fok[a].amount :
          /\ st = "live" => fok[a].nLive < MaxLive
          /\ st = "" => fok[a].nRetry < MaxRetry /\ f = 0
          /\ st = "live" => f = 0
          /\ fok' = [fok EXCEPT
                ![a].order = [Status |-> st, FilledAmount |-> f],
                ![a].pc = AfterStatus(st),
                ![a].lastCall = "GetOrderStatus",
                ![a].polledId = fok[a].id,
                ![a].nLive = IF st = "live" THEN @ + 1 ELSE @,
                ![a].nRetry = IF st = "" THEN @ + 1 ELSE @,
                ![a].filledAmount =
                    IF AfterStatus(st) = "set"
                    THEN FilledAmount(a, fok[a].exg, f) ELSE @,
                ![a].posRead =
                    IF AfterStatus(st) = "set"
                    THEN position[fok[a].exg] ELSE @]
    /\ UNCHANGED << position, traded >>
    /\ FokFrame

\* exg.CancelOrder(id); the result is ignored
CancelOrder(a) ==
    /\ fok[a].pc = "cancel"
    /\ fok' = [fok EXCEPT ![a].pc = "poll",
                          ![a].lastCall = "CancelOrder",
                          ![a].nCancel = @ + 1]
    /\ UNCHANGED << position, traded >>
    /\ FokFrame

\* The goroutine after its loops: only its result and what the log line
\* prints are still in use (and the counts of the venue's replies)
Deliver(g) ==
    [IdleFok EXCEPT !.pc = "deliver", !.exg = g.exg, !.amount = g.amount,
                    !.price = g.price, !.order = g.order,
                    !.filledAmount = g.filledAmount, !.nLive = g.nLive,
                    !.nCancel = g.nCancel]

\* exg.SetPosition(exg.Position() +/- filledAmount), the trade log line, and
\* then the goroutine blocks in fillChan <- filledAmount
SetPosition(a) ==
    /\ fok[a].pc = "set"
    /\ LET e == fok[a].exg IN
          /\ position' = [position EXCEPT
                ![e] = NewPosition(a, fok[a].posRead, fok[a].filledAmount)]
          /\ traded' = [traded EXCEPT
                ![e] = NewPosition(a, @, fok[a].filledAmount)]
    /\ fok' = [fok EXCEPT ![a] = Deliver(fok[a])]
    /\ FokFrame

\* ---------------------------------------------------------------- strategy
\* calcNetPosition
RECURSIVE SumPos(_, _)
SumPos(pos, S) ==
    IF S = {} THEN 0
    ELSE LET e == CHOOSE x \in S : TRUE IN pos[e] + SumPos(pos, S \ {e})
CalcNetPosition(pos) == SumPos(pos, Exchanges)

\* (variant: the amount of a buy not negated)
UpdatePL_NoSign(price, amt, a) == pl + price * amt

\* updatePL(price, amount, action): the new pl
UpdatePL(price, amt, a) ==
    pl + price * (IF a = "buy" THEN -amt ELSE amt)

\* (variant: without the exception for an amount of MaxOrder)
NotFalseRepeat_NoMaxOrder(arb, amt) ==
    \/ Abs(arb - lastArb) > 0
    \/ Abs(amt - lastAmount) > 0

\* The false-repeat test of considerTrade (differences compared to 1e-6):
\* TRUE when the opportunity is to be traded
NotFalseRepeat(arb, amt) ==
    \/ Abs(arb - lastArb) > 0
    \/ Abs(amt - lastAmount) > 0
    \/ Abs(amt - cfg.MaxOrder) = 0

\* (variant: the priority comparison reversed)
FirstLeg_Reversed(bid, ask) ==
    IF Priority(bid.exg) > Priority(ask.exg) THEN "sell" ELSE "buy"

\* sendPair: which leg goes first when the priorities differ
FirstLeg(bid, ask) ==
    IF Priority(bid.exg) < Priority(ask.exg) THEN "sell" ELSE "buy"
OtherLeg(a) == IF a = "buy" THEN "sell" ELSE "buy"
\* sendPair: whether the two legs are sent at once
Simultaneous(bid, ask) == Priority(bid.exg) = Priority(ask.exg)
\* sendPair: whether the second leg is sent after a first fill
SendSecond(fill) == fill >= cfg.MinNetPos
\* The market a leg trades on
LegMarket(a, bid, ask) == IF a = "buy" THEN ask ELSE bid

\* A method call on the nil exchange of a zero market panics and ends the
\* run: pc becomes "crashed".

\* (variant: the exit sent for the whole amount of the market)
ExitAmount_Market(netPos, mk) == mk.amount

\* amount := math.Min(netPosition, bestBid.amount), and with -netPosition
\* and bestAsk.amount for a net short position
ExitAmount(netPos, mk) == Min(netPos, mk.amount)

\* The net-position exit branches up to the receive on fillChan
StartExit(a, mk, amt) ==
    /\ bestBid' = IF a = "sell" THEN mk ELSE bestBid
    /\ bestAsk' = IF a = "buy" THEN mk ELSE bestAsk
    /\ amount' = amt
    /\ UNCHANGED pairAmount
    /\ IF mk.exg = Nil
       THEN /\ pc' = "crashed"
            /\ UNCHANGED fok
       ELSE /\ pc' = IF a = "sell" THEN "exitLong" ELSE "exitShort"
            /\ fok' = [fok EXCEPT ![a] = StartFok(mk.exg, amt, mk.orderPrice)]

\* sendPair(bestBid, bestAsk, amount) up to its first receive
StartPair(bid, ask, amt) ==
    /\ bestBid' = bid
    /\ bestAsk' = ask
    /\ amount' = amt
    /\ pairAmount' = amt
    /\ IF bid.exg = Nil \/ ask.exg = Nil
       THEN /\ pc' = "crashed"
            /\ UNCHANGED fok
       ELSE IF Simultaneous(bid, ask)
       THEN /\ pc' = "pair1"
            /\ fok' = [fok EXCEPT
                  !["buy"] = StartFok(ask.exg, amt, ask.orderPrice),
                  !["sell"] = StartFok(bid.exg, amt, bid.orderPrice)]
       ELSE LET a == FirstLeg(bid, ask)
                mk == LegMarket(a, bid, ask)
            IN  /\ pc' = "first"
                /\ fok' = [fok EXCEPT ![a] = StartFok(mk.exg, amt, mk.orderPrice)]

\* One iteration of the considerTrade loop, from the receive on newBook to
\* the first receive on a fill channel (or to the end of the iteration when
\* nothing is traded).
ConsiderTrade ==
    /\ pc = "wait"
    /\ cycles < MaxCycles
    /\ cycles' = cycles + 1
    /\ \E ag \in [Exchanges -> Ages] :
       \E m \in Snapshots({ e \in Exchanges : Fresh(ag[e]) }) :
          /\ age' = ag
          /\ markets' = m
          /\ IF netPosition >= cfg.MinNetPos
             THEN \E bb \in FindBestBid(m) :
                     StartExit("sell", bb, ExitAmount(netPosition, bb))
             ELSE IF netPosition <= -cfg.MinNetPos
             THEN \E ba \in FindBestAsk(m) :
                     StartExit("buy", ba, ExitAmount(-netPosition, ba))
             ELSE \E r \in FindBestArb(m) :
                     LET arb == r.bid.adjPrice - r.ask.adjPrice
                         amt == Min(r.bid.amount, r.ask.amount)
                     IN  IF r.exists /\ NotFalseRepeat(arb, amt)
                         THEN StartPair(r.bid, r.ask, amt)
                         ELSE UNCHANGED << pc, fok, bestBid, bestAsk, amount,
                                           pairAmount >>
    /\ UNCHANGED << cfg, startPos, position, netPosition, pl, lastArb,
                    lastAmount, traded, result, hubVars, sockVars >>

\* The markets of an iteration go out of scope at its end
EndIteration ==
    /\ bestBid' = NoMarket
    /\ bestAsk' = NoMarket
    /\ amount' = 0
    /\ pairAmount' = 0
    /\ markets' = << >>
    /\ age' = NoAge

\* The end of a pair iteration: sendPair has returned
EndPair ==
    /\ netPosition' = CalcNetPosition(position)
    /\ lastArb' = bestBid.adjPrice - bestAsk.adjPrice
    /\ lastAmount' = amount
    /\ pc' = "wait"
    /\ EndIteration

StratFrame == UNCHANGED << cfg, startPos, position, traded, cycles, result,
                           hubVars, sockVars >>
MidFrame == UNCHANGED << markets, age, bestBid, bestAsk, amount >>

\* Exit branch: updatePL(price, <-fillChan, action); calcNetPosition()
ExitFill ==
    /\ pc \in {"exitLong", "exitShort"}
    /\ LET a == IF pc = "exitLong" THEN "sell" ELSE "buy"
           mk == LegMarket(a, bestBid, bestAsk)
       IN  /\ fok[a].pc = "deliver"
           /\ pl' = UpdatePL(mk.adjPrice, fok[a].filledAmount, a)
           /\ fok' = [fok EXCEPT ![a] = IdleFok]
    /\ netPosition' = CalcNetPosition(position)
    /\ pc' = "wait"
    /\ EndIteration
    /\ UNCHANGED << lastArb, lastAmount >>
    /\ StratFrame

\* Equal priorities: updatePL(bestAsk.adjPrice, <-fillChan1, "buy")
PairFill1 ==
    /\ pc = "pair1"
    /\ fok["buy"].pc = "deliver"
    /\ pl' = UpdatePL(bestAsk.adjPrice, fok["buy"].filledAmount, "buy")
    /\ fok' = [fok EXCEPT !["buy"] = IdleFok]
    /\ pc' = "pair2"
    /\ UNCHANGED << netPosition, lastArb, lastAmount, pairAmount >>
    /\ MidFrame
    /\ StratFrame

\* Equal priorities: updatePL(bestBid.adjPrice, <-fillChan2, "sell"), return
PairFill2 ==
    /\ pc = "pair2"
    /\ fok["sell"].pc = "deliver"
    /\ pl' = UpdatePL(bestBid.adjPrice, fok["sell"].filledAmount, "sell")
    /\ fok' = [fok EXCEPT !["sell"] = IdleFok]
    /\ EndPair
    /\ StratFrame

\* Unequal priorities: amount = <-fillChan of the first leg; updatePL; the
\* second leg is started for that amount when it reaches MinNetPos.
FirstFill ==
    /\ pc = "first"
    /\ LET a == FirstLeg(bestBid, bestAsk)
           b == OtherLeg(a)
           fill == fok[a].filledAmount
           mk == LegMarket(b, bestBid, bestAsk)
       IN  /\ fok[a].pc = "deliver"
           /\ pl' = UpdatePL(LegMarket(a, bestBid, bestAsk).adjPrice, fill, a)
           /\ IF SendSecond(fill)
              THEN /\ fok' = [fok EXCEPT
                         ![a] = IdleFok,
                         ![b] = StartFok(mk.exg, fill, mk.orderPrice)]
                   /\ pc' = "second"
                   /\ pairAmount' = fill
                   /\ UNCHANGED << netPosition, lastArb, lastAmount >>
                   /\ MidFrame
              ELSE /\ fok' = [fok EXCEPT ![a] = IdleFok]
                   /\ EndPair
    /\ StratFrame

\* Unequal priorities: updatePL(price, <-fillChan of the second leg), return
SecondFill ==
    /\ pc = "second"
    /\ LET b == OtherLeg(FirstLeg(bestBid, bestAsk))
       IN  /\ fok[b].pc = "deliver"
           /\ pl' = UpdatePL(LegMarket(b, bestBid, bestAsk).adjPrice,
                             fok[b].filledAmount, b)
           /\ fok' = [fok EXCEPT ![b] = IdleFok]
    /\ EndPair
    /\ StratFrame

\* newBook is closed by handleData on termination: the loop ends
Shutdown ==
    /\ pc = "wait"
    /\ pc' = "done"
    /\ UNCHANGED << cfg, startPos, position, netPosition, pl, lastArb,
                    lastAmount, markets, age, bestBid, bestAsk, amount,
                    pairAmount, fok, traded, cycles, result, hubVars,
                    sockVars >>

\* ----------------------------------------------------------- specification
\* Positions loaded from status.csv
StartPositions ==
    { [e \in Exchanges |-> 0],
      [e \in Exchanges |-> IF e = 1 THEN -1 ELSE IF e = 2 THEN 1 ELSE 0],
      [e \in Exchanges |-> IF e = 1 THEN 1 ELSE 0] }

Init ==
    /\ cfg \in Configs
    /\ startPos \in StartPositions
    /\ position = startPos
    /\ netPosition = CalcNetPosition(startPos)
    /\ pl = 0
    /\ lastArb = 0
    /\ lastAmount = 0
    /\ markets = << >>
    /\ age = NoAge
    /\ bestBid = NoMarket
    /\ bestAsk = NoMarket
    /\ amount = 0
    /\ pairAmount = 0
    /\ pc = "wait"
    /\ fok = [a \in Actions |-> IdleFok]
    /\ traded = [e \in Exchanges |-> 0]
    /\ cycles = 0
    /\ result = NoResult
    /\ HubStart
    /\ SockStart

Next ==
    \/ ConsiderTrade
    \/ \E a \in Actions : SendOrder(a)
    \/ \E a \in Actions : GetOrderStatus(a)
    \/ \E a \in Actions : CancelOrder(a)
    \/ \E a \in Actions : SetPosition(a)
    \/ ExitFill
    \/ PairFill1
    \/ PairFill2
    \/ FirstFill
    \/ SecondFill
    \/ Shutdown

Spec == Init /\ [][Next]_vars

\* Every goroutine that can run is eventually scheduled; the venues answer
\* every call, with at most MaxRetry errors and MaxLive "live" per order.
Fairness ==
    /\ \A a \in Actions :
          /\ WF_vars(SendOrder(a))
          /\ WF_vars(GetOrderStatus(a))
          /\ WF_vars(CancelOrder(a))
          /\ WF_vars(SetPosition(a))
    /\ WF_vars(ExitFill)
    /\ WF_vars(PairFill1)
    /\ WF_vars(PairFill2)
    /\ WF_vars(FirstFill)
    /\ WF_vars(SecondFill)

\* The first iteration of the strategy loop alone, under fair scheduling
FirstTrade == cycles = 0 /\ ConsiderTrade
NextFirst ==
    \/ FirstTrade
    \/ \E a \in Actions : SendOrder(a)
    \/ \E a \in Actions : GetOrderStatus(a)
    \/ \E a \in Actions : CancelOrder(a)
    \/ \E a \in Actions : SetPosition(a)
    \/ ExitFill
    \/ PairFill1
    \/ PairFill2
    \/ FirstFill
    \/ SecondFill
    \/ Shutdown
FirstSpec == Init /\ [][NextFirst]_vars /\ Fairness

\* ---------------------------------------------------- filterBook on its own
\* The adjusted prices filterBook computes are held in units of 1/AdjScale
\* (the float64 quotient is exact at this resolution for the books below).
AdjScale == 72

\* One side of an exchange.Book: the best level first, bids one tick apart
\* going down from 19, asks one tick apart going up from 21
LevelAmounts == {0, 1, 2, 4}
BidItems ==
    UNION { { [i \in 1..n |-> [Price |-> 20 - i, Amount |-> a[i]]] :
                  a \in [1..n -> LevelAmounts] } : n \in 0..MaxDepth }
AskItems ==
    UNION { { [i \in 1..n |-> [Price |-> 20 + i, Amount |-> a[i]]] :
                  a \in [1..n -> LevelAmounts] } : n \in 0..MaxDepth }
Books ==
    { [Exg |-> e, Bids |-> b, Asks |-> a] :
          e \in Exchanges, b \in BidItems, a \in AskItems }
\* Prices of the venue's currency in the base currency
FxPrices == {1, 2, 3}

\* (variant: a side is emitted with what has been gathered when the levels
\* run out)
RECURSIVE Walk_EmitAtEnd(_, _, _, _)
Walk_EmitAtEnd(items, i, amt, aggPrice) ==
    IF i > Len(items)
    THEN [found |-> amt > 0,
          price |-> IF amt > 0 THEN items[Len(items)].Price ELSE 0,
          amount |-> amt, aggPrice |-> aggPrice]
    ELSE LET take == Min(cfg.MaxOrder - amt, items[i].Amount)
         IN  IF amt + take >= cfg.MinOrder
             THEN [found |-> TRUE, price |-> items[i].Price,
                   amount |-> amt + take,
                   aggPrice |-> aggPrice + items[i].Price * take]
             ELSE Walk_EmitAtEnd(items, i + 1, amt + take,
                                 aggPrice + items[i].Price * take)

\* The loop over one side from level i on, with amount and aggPrice so far:
\* each level adds min(MaxOrder - amount, level amount), and the loop breaks
\* at the first level where amount >= MinOrder.
RECURSIVE Walk(_, _, _, _)
Walk(items, i, amt, aggPrice) ==
    IF i > Len(items)
    THEN [found |-> FALSE, price |-> 0, amount |-> amt, aggPrice |-> aggPrice]
    ELSE LET take == Min(cfg.MaxOrder - amt, items[i].Amount)
         IN  IF amt + take >= cfg.MinOrder
             THEN [found |-> TRUE, price |-> items[i].Price,
                   amount |-> amt + take,
                   aggPrice |-> aggPrice + items[i].Price * take]
             ELSE Walk(items, i + 1, amt + take,
                       aggPrice + items[i].Price * take)

\* (variant: the fee taken off the asks as it is off the bids)
AdjPrice_FeeOff(aggPrice, amt, e, fxPrice, side) ==
    (aggPrice * (Fee(e)[2] - Fee(e)[1]) * AdjScale)
    \div (amt * Fee(e)[2] * fxPrice)

\* (aggPrice / amount) * (1 -/+ fee) / fxPrice, in units of 1/AdjScale
AdjPrice(aggPrice, amt, e, fxPrice, side) ==
    (aggPrice * (IF side = "bid" THEN Fee(e)[2] - Fee(e)[1]
                 ELSE Fee(e)[2] + Fee(e)[1]) * AdjScale)
    \div (amt * Fee(e)[2] * fxPrice)

\* One side of the filtered book: fb.bid or fb.ask
FilterSide(items, e, fxPrice, side) ==
    LET w == Walk(items, 1, 0, 0)
    IN  IF w.found
        THEN Market(e, w.price, w.amount,
                    AdjPrice(w.aggPrice, w.amount, e, fxPrice, side))
        ELSE NoMarket

\* filterBook(book, fxPrice); the time of the book is carried by age
FilterBook(book, fxPrice) ==
    [bid |-> FilterSide(book.Bids, book.Exg, fxPrice, "bid"),
     ask |-> FilterSide(book.Asks, book.Exg, fxPrice, "ask")]

\* MinOrder and MaxOrder of the filter: equal, one apart, two apart
FilterConfigs ==
    { [Config(2, -1, ProdExchanges) EXCEPT !.MinOrder = o[1], !.MaxOrder = o[2]] :
          o \in {<<3, 3>>, <<2, 3>>, <<1, 3>>} }

FilterInit ==
    /\ cfg \in FilterConfigs
    /\ startPos = [e \in Exchanges |-> 0]
    /\ position = startPos
    /\ netPosition = 0
    /\ pl = 0
    /\ lastArb = 0
    /\ lastAmount = 0
    /\ markets = << >>
    /\ age = NoAge
    /\ bestBid = NoMarket
    /\ bestAsk = NoMarket
    /\ amount = 0
    /\ pairAmount = 0
    /\ pc = "wait"
    /\ fok = [a \in Actions |-> IdleFok]
    /\ traded = [e \in Exchanges |-> 0]
    /\ cycles = 0
    /\ result = NoResult
    /\ HubStart
    /\ SockStart

\* market := filterBook(testBook, fxPrice)
Filter ==
    /\ result = NoResult
    /\ \E book \in Books, fxPrice \in FxPrices :
          result' = [op |-> "filterBook", book |-> book, fxPrice |-> fxPrice,
                     fb |-> FilterBook(book, fxPrice)]
    /\ UNCHANGED << cfg, startPos, position, netPosition, pl, lastArb,
                    lastAmount, markets, age, bestBid, bestAsk, amount,
                    pairAmount, pc, fok, traded, cycles, hubVars, sockVars >>

FilterSpec == FilterInit /\ [][Filter]_vars

\* ------------------------------------------------- calcNeededArb on its own
\* The venues of TestCalculateNeededArb: an okcoin venue (usd or cny) to buy
\* on and bitfinex(usd) venues to sell on, all with a maximum position of 500
NeededArbExchanges(cc) ==
    [e \in Exchanges |->
        IF e = 1 THEN [OKCoin(1, cc) EXCEPT !.maxPos = 500]
        ELSE [Bitfinex(2, 0) EXCEPT !.maxPos = 500]]
\* MinArb, MaxArb and FXPremium of the tests, in units of their MinArb
\* (1 without FX, 0.01 with FX), and a wider band
NeededArbConfigs ==
    { Config(a[1], a[2], NeededArbExchanges(cc)) :
          a \in {<<2, -1>>, <<1, -4>>}, cc \in {0, 1} }
\* The positions the tests set
TestPositions == {-500, -250, -200, -100, 0, 100, 250, 500}

NeededArbInit ==
    /\ cfg \in NeededArbConfigs
    /\ startPos \in [Exchanges -> TestPositions]
    /\ position = startPos
    /\ netPosition = 0
    /\ pl = 0
    /\ lastArb = 0
    /\ lastAmount = 0
    /\ markets = << >>
    /\ age = NoAge
    /\ bestBid = NoMarket
    /\ bestAsk = NoMarket
    /\ amount = 0
    /\ pairAmount = 0
    /\ pc = "wait"
    /\ fok = [a \in Actions |-> IdleFok]
    /\ traded = [e \in Exchanges |-> 0]
    /\ cycles = 0
    /\ result = NoResult
    /\ HubStart
    /\ SockStart

\* arb := calcNeededArb(buyExg, sellExg)
NeededArb ==
    /\ result = NoResult
    /\ \E b \in Exchanges, s \in Exchanges :
          result' = [op |-> "calcNeededArb", buyExg |-> b, sellExg |-> s,
                     arb |-> CalcNeededArb(b, s)]
    /\ UNCHANGED << cfg, startPos, position, netPosition, pl, lastArb,
                    lastAmount, markets, age, bestBid, bestAsk, amount,
                    pairAmount, pc, fok, traded, cycles, hubVars, sockVars >>

NeededArbSpec == NeededArbInit /\ [][NeededArb]_vars

\* ------------------------------------------------------------- the data hub
\* No order is in flight and no function is run on its own
TradeIdle ==
    /\ cfg = Config(2, -1, ProdExchanges)
    /\ startPos = [e \in Exchanges |-> 0]
    /\ position = startPos
    /\ netPosition = 0
    /\ pl = 0
    /\ lastArb = 0
    /\ lastAmount = 0
    /\ markets = << >>
    /\ age = NoAge
    /\ bestBid = NoMarket
    /\ bestAsk = NoMarket
    /\ amount = 0
    /\ pairAmount = 0
    /\ pc = "wait"
    /\ fok = [a \in Actions |-> IdleFok]
    /\ traded = [e \in Exchanges |-> 0]
    /\ cycles = 0
    /\ result = NoResult

HubFrame == UNCHANGED << tradeVars, sockVars >>

\* checkStdin: Scanf returns on input and doneChan (capacity 1) takes the value
CheckStdin ==
    /\ stdin = "scan"
    /\ stdin' = "returned"
    /\ chans' = [chans EXCEPT !.done = 1]
    /\ UNCHANGED << hub, strat, adapter, fx >>
    /\ HubFrame

\* The adapter's runLoop at its select: the done case when exgDoneChan
\* holds a value, the default case (getBook) otherwise
AdapterSelect(e) ==
    /\ adapter[e].pc = "select"
    /\ IF chans.exgDone > 0
       THEN /\ chans' = [chans EXCEPT !.exgDone = @ - 1]
            /\ adapter' = [adapter EXCEPT ![e].pc = "returned"]
       ELSE /\ adapter' = [adapter EXCEPT ![e].pc = "getBook"]
            /\ UNCHANGED chans
    /\ UNCHANGED << stdin, hub, strat, fx >>
    /\ HubFrame

\* client.getBook() returns: the same book as before, a changed book or a
\* book holding an error; the last two are sent on bookChan
GetBook(e) ==
    /\ adapter[e].pc = "getBook"
    /\ \E out \in {"same", "book", "error"} :
          /\ out # "same" => adapter[e].sent < MaxBooks
          /\ adapter' = [adapter EXCEPT
                            ![e].pc = IF out = "same" THEN "select" ELSE "send",
                            ![e].err = (out = "error")]
    /\ UNCHANGED << stdin, chans, hub, strat, fx >>
    /\ HubFrame

\* (variant: no book counts as an error)
IsError_Never(err) == FALSE

\* isError(err): err != nil (the error is logged)
IsError(err) == err

\* case book := <-bookChan: the adapter's send and the hub's receive meet; a
\* good book is filtered at the price handleFX answers and stored
RecvBook(e) ==
    /\ hub.pc = "select"
    /\ adapter[e].pc = "send"
    /\ fx.pc = "select"
    /\ adapter' = [adapter EXCEPT
                      ![e].pc = "select", ![e].sent = @ + 1, ![e].err = FALSE,
                      ![e].good = IF adapter[e].err THEN @ ELSE @ + 1]
    /\ hub' = IF IsError(adapter[e].err) THEN hub
              ELSE [hub EXCEPT !.markets[e] = @ + 1, !.pc = "notify"]
    /\ UNCHANGED << stdin, chans, strat, fx >>
    /\ HubFrame

\* A send on an unbuffered channel as a plain statement
TrySend_Blocking(receiverWaiting) ==
    IF receiverWaiting THEN "sent" ELSE "blocked"

\* select { case newBook <- true: default: } on the unbuffered newBook
TrySend(receiverWaiting) ==
    IF receiverWaiting THEN "sent" ELSE "default"

\* The hub notifies; a strategy blocked in `range newBook` starts an
\* iteration with markets = make(map); n counts the iterations
Notify ==
    /\ hub.pc = "notify"
    /\ LET sent == TrySend(strat.pc = "range")
       IN  /\ sent # "blocked"
           /\ strat' = IF sent = "sent"
                       THEN [pc |-> "request", i |-> 1, markets |-> << >>,
                             n |-> strat.n + 1]
                       ELSE strat
    /\ hub' = [hub EXCEPT !.pc = "select"]
    /\ UNCHANGED << stdin, chans, adapter, fx >>
    /\ HubFrame

\* requestBook <- exg meets case exg := <-requestBook
RequestBook ==
    /\ strat.pc = "request"
    /\ hub.pc = "select"
    /\ strat' = [strat EXCEPT !.pc = "receive"]
    /\ hub' = [hub EXCEPT !.pc = "reply", !.exg = strat.i]
    /\ UNCHANGED << stdin, chans, adapter, fx >>
    /\ HubFrame

\* receiveBook <- markets[exg] meets fb := <-receiveBook; the strategy goes
\* on to the next venue of the exchanges slice, or to its decision
ReceiveBook ==
    /\ hub.pc = "reply"
    /\ strat.pc = "receive"
    /\ strat' = [pc |-> IF strat.i < NumExg THEN "request" ELSE "trade",
                 i |-> IF strat.i < NumExg THEN strat.i + 1 ELSE strat.i,
                 markets |-> Append(strat.markets, hub.markets[hub.exg]),
                 n |-> strat.n]
    /\ hub' = [hub EXCEPT !.pc = "select", !.exg = Nil]
    /\ UNCHANGED << stdin, chans, adapter, fx >>
    /\ HubFrame

\* The rest of the iteration (the decision and its orders) has run
Trade ==
    /\ strat.pc = "trade"
    /\ strat' = [strat EXCEPT !.pc = "range", !.i = 1]
    /\ UNCHANGED << stdin, chans, hub, adapter, fx >>
    /\ HubFrame

\* range newBook ends on the closed channel: considerTrade returns to main
Return ==
    /\ strat.pc = "range"
    /\ chans.newBookClosed
    /\ strat' = [strat EXCEPT !.pc = "save"]
    /\ UNCHANGED << stdin, chans, hub, adapter, fx >>
    /\ HubFrame

\* main: saveStatus()
SaveStatus ==
    /\ strat.pc = "save"
    /\ strat' = [strat EXCEPT !.pc = "saved"]
    /\ UNCHANGED << stdin, chans, hub, adapter, fx >>
    /\ HubFrame

\* case <-doneChan: close(newBook), one value on fxDoneChan (capacity 1), one
\* per exchange on exgDoneChan (capacity len(exchanges)), return
TakeDone ==
    /\ hub.pc = "select"
    /\ chans.done = 1
    /\ chans' = [done |-> 0, fxDone |-> 1, exgDone |-> NumExg,
                 newBookClosed |-> TRUE]
    /\ hub' = [hub EXCEPT !.pc = "returned"]
    /\ UNCHANGED << stdin, strat, adapter, fx >>
    /\ HubFrame

\* getQuote(symbol): an error Quote (zero Price and Symbol) when the request
\* or the decoding failed or when price < .000001
GetQuote(symbol, raw, failed) ==
    IF failed \/ raw < 1
    THEN Quote(0, "", TRUE)
    ELSE Quote(raw, symbol, FALSE)

\* prices[symbol] of a Go map: the zero value for a key that is not there
PriceOf(prices, symbol) ==
    IF symbol \in DOMAIN prices THEN prices[symbol] ELSE 0

\* (variant: the quote stored whether it is an error or not)
StorePrice_Always(prices, quote) ==
    [s \in DOMAIN prices \cup {quote.Symbol} |->
        IF s = quote.Symbol THEN quote.Price ELSE prices[s]]

\* if !isError(quote.Error) { prices[quote.Symbol] = quote.Price }
StorePrice(prices, quote) ==
    IF IsError(quote.Error)
    THEN prices
    ELSE [s \in DOMAIN prices \cup {quote.Symbol} |->
             IF s = quote.Symbol THEN quote.Price ELSE prices[s]]

\* forex runLoop, case <-ticker.C: getQuote, then the send on fxChan; the
\* price field of the response is absent or zero, or a price
PollerTick ==
    /\ fx.poller = "select"
    /\ fx.sent < MaxBooks
    /\ \E raw \in {0} \cup FxPrices, failed \in BOOLEAN :
          fx' = [fx EXCEPT !.poller = "send",
                           !.quote = GetQuote("cny", raw, failed)]
    /\ UNCHANGED << stdin, chans, hub, strat, adapter >>
    /\ HubFrame

\* handleFX, case quote := <-fxChan
FxQuote ==
    /\ fx.pc = "select"
    /\ fx.poller = "send"
    /\ fx' = [fx EXCEPT !.poller = "select", !.sent = @ + 1,
                       !.prices = StorePrice(@, fx.quote)]
    /\ UNCHANGED << stdin, chans, hub, strat, adapter >>
    /\ HubFrame

\* handleFX, case <-doneChan: it goes on to fxDoneChan <- true
FxTakeDone ==
    /\ fx.pc = "select"
    /\ chans.fxDone = 1
    /\ fx' = [fx EXCEPT !.pc = "forward"]
    /\ chans' = [chans EXCEPT !.fxDone = 0]
    /\ UNCHANGED << stdin, hub, strat, adapter >>
    /\ HubFrame

\* fxDoneChan <- true on handleFX's unbuffered channel meets the poller's
\* case <-doneChan; both return
FxForward ==
    /\ fx.pc = "forward"
    /\ fx.poller = "select"
    /\ fx' = [fx EXCEPT !.pc = "returned", !.poller = "returned"]
    /\ UNCHANGED << stdin, chans, hub, strat, adapter >>
    /\ HubFrame

HubInit == TradeIdle /\ HubStart /\ SockStart

HubNext ==
    \/ CheckStdin
    \/ \E e \in Exchanges : AdapterSelect(e)
    \/ \E e \in Exchanges : GetBook(e)
    \/ \E e \in Exchanges : RecvBook(e)
    \/ Notify
    \/ RequestBook
    \/ ReceiveBook
    \/ Trade
    \/ Return
    \/ SaveStatus
    \/ TakeDone
    \/ PollerTick
    \/ FxQuote
    \/ FxTakeDone
    \/ FxForward

\* Every goroutine that can take a step is eventually scheduled, and a select
\* with several ready cases picks among them at random, so the done case is
\* not passed over forever.  The user may never type; a venue and the ticker
\* may never have anything new.
HubFairness ==
    /\ \A e \in Exchanges :
          /\ WF_vars(AdapterSelect(e))
          /\ WF_vars(GetBook(e))
          /\ WF_vars(RecvBook(e))
    /\ WF_vars(Notify)
    /\ WF_vars(RequestBook)
    /\ WF_vars(ReceiveBook)
    /\ WF_vars(Trade)
    /\ WF_vars(Return)
    /\ WF_vars(SaveStatus)
    /\ SF_vars(TakeDone)
    /\ WF_vars(FxQuote)
    /\ SF_vars(FxTakeDone)
    /\ WF_vars(FxForward)

HubSpec == HubInit /\ [][HubNext]_vars /\ HubFairness

\* ----------------------------------------------------- a streaming adapter
\* runLoop of okcoin (and of btcchina, with connectSocketIO for newWS): the
\* owner goroutine lends ws on receiveWS, reconnects on reconnectWS and closes
\* on closeWS; the reader goroutine reads; runLoop's own loop sends the
\* heartbeat and passes books on.  The hub is taken to receive every book.
SockFrame == UNCHANGED << tradeVars, hubVars >>

\* case receiveWS <- ws meets one of the reader's two <-receiveWS
LendReader ==
    /\ owner.pc = "select"
    /\ reader.pc \in {"askDeadline", "askRead"}
    /\ reader' = [reader EXCEPT !.h = owner.ws,
                                !.pc = IF reader.pc = "askDeadline"
                                       THEN "deadline" ELSE "read"]
    /\ UNCHANGED << socks, owner, heart, net >>
    /\ SockFrame

\* (<-receiveWS).SetReadDeadline(...): the result is not looked at;
\* deadline is the socket the call was made on
SetReadDeadline ==
    /\ reader.pc = "deadline"
    /\ reader' = [reader EXCEPT !.pc = "askRead", !.deadline = reader.h]
    /\ UNCHANGED << socks, owner, heart, net >>
    /\ SockFrame

\* _, data, err := (<-receiveWS).ReadMessage() returns: an error (always, on
\* a socket that has been closed; a network error or the read deadline
\* otherwise), a pong, or a book the venue has delivered
ReadMessage ==
    /\ reader.pc = "read"
    /\ LET s == socks[reader.h]
       IN  \E out \in {"error", "pong", "data"} :
              /\ out = "error" => ~s.open \/ net.errors < MaxErrors
              /\ out = "pong" => s.open /\ s.pong
              /\ out = "data" => s.open /\ s.book = "pending"
              /\ reader' = [reader EXCEPT
                               !.pc = CASE out = "error" -> "reconnect"
                                        [] out = "pong"  -> "askDeadline"
                                        [] OTHER         -> "data",
                               !.data = IF out = "data" THEN reader.h ELSE @]
              /\ socks' = CASE out = "pong" -> [socks EXCEPT ![reader.h].pong = FALSE]
                            [] out = "data" -> [socks EXCEPT ![reader.h].book = "read"]
                            [] OTHER        -> socks
              /\ net' = IF out = "error" /\ s.open
                        THEN [net EXCEPT !.errors = @ + 1] ELSE net
    /\ UNCHANGED << owner, heart >>
    /\ SockFrame

\* reconnectWS <- true of the reader meets case <-reconnectWS: ws.Close()
ReaderReconnect ==
    /\ reader.pc = "reconnect"
    /\ owner.pc = "select"
    /\ socks' = [socks EXCEPT ![owner.ws].open = FALSE]
    /\ owner' = [owner EXCEPT !.pc = "dial"]
    /\ reader' = [reader EXCEPT !.pc = "askDeadline"]
    /\ UNCHANGED << heart, net >>
    /\ SockFrame

\* reconnectWS <- true of the heartbeat meets case <-reconnectWS: ws.Close()
HeartReconnect ==
    /\ heart.pc = "reconnect"
    /\ owner.pc = "select"
    /\ socks' = [socks EXCEPT ![owner.ws].open = FALSE]
    /\ owner' = [owner EXCEPT !.pc = "dial"]
    /\ heart' = [heart EXCEPT !.pc = "select"]
    /\ UNCHANGED << reader, net >>
    /\ SockFrame

\* What newWS leaves behind: nothing when Dial fails; the dialled socket,
\* still open, when WriteJSON of the subscription fails (nil is returned);
\* the subscribed socket otherwise
Dialled(out) ==
    CASE out = "dialError"      -> << >>
      [] out = "subscribeError" -> << NewSocket(FALSE) >>
      [] OTHER                  -> << NewSocket(TRUE) >>

\* One newWS of reconnectWS: on an error the owner sleeps a second and tries
\* again, on success ws is the new socket and the owner is back at its select
Dial ==
    /\ owner.pc = "dial"
    /\ \E out \in {"dialError", "subscribeError", "ok"} :
          /\ out # "ok" => net.errors < MaxErrors
          /\ socks' = socks \o Dialled(out)
          /\ owner' = IF out = "ok"
                      THEN [pc |-> "select", ws |-> Len(socks) + 1]
                      ELSE owner
          /\ net' = IF out = "ok" THEN net ELSE [net EXCEPT !.errors = @ + 1]
    /\ UNCHANGED << reader, heart >>
    /\ SockFrame

\* case <-ticker.C
Tick ==
    /\ heart.pc = "select"
    /\ net.ticks < MaxTicks
    /\ heart' = [heart EXCEPT !.pc = "askPing"]
    /\ net' = [net EXCEPT !.ticks = @ + 1]
    /\ UNCHANGED << socks, owner, reader >>
    /\ SockFrame

\* case receiveWS <- ws meets the heartbeat's <-receiveWS
LendHeart ==
    /\ owner.pc = "select"
    /\ heart.pc = "askPing"
    /\ heart' = [heart EXCEPT !.h = owner.ws, !.pc = "ping"]
    /\ UNCHANGED << socks, owner, reader, net >>
    /\ SockFrame

\* (<-receiveWS).WriteMessage(1, ping) returns: an error (always, on a socket
\* that has been closed), or nil, after which the venue answers with a pong
WriteMessage ==
    /\ heart.pc = "ping"
    /\ LET s == socks[heart.h]
       IN  \E out \in {"error", "ok"} :
              /\ out = "error" => ~s.open \/ net.errors < MaxErrors
              /\ out = "ok" => s.open
              /\ heart' = [heart EXCEPT !.pc = IF out = "error" THEN "reconnect"
                                               ELSE "select"]
              /\ socks' = IF out = "ok" THEN [socks EXCEPT ![heart.h].pong = TRUE]
                          ELSE socks
              /\ net' = IF out = "error" /\ s.open
                        THEN [net EXCEPT !.errors = @ + 1] ELSE net
    /\ UNCHANGED << owner, reader >>
    /\ SockFrame

\* dataChan <- data meets case data := <-dataChan
RecvData ==
    /\ heart.pc = "select"
    /\ reader.pc = "data"
    /\ heart' = [heart EXCEPT !.pc = "publish", !.data = reader.data]
    /\ reader' = [reader EXCEPT !.pc = "askDeadline", !.data = 0]
    /\ UNCHANGED << socks, owner, net >>
    /\ SockFrame

\* bookChan <- client.convertToBook(data), received by the hub
Publish ==
    /\ heart.pc = "publish"
    /\ socks' = [socks EXCEPT ![heart.data].book = "out"]
    /\ heart' = [heart EXCEPT !.pc = "select", !.data = 0]
    /\ UNCHANGED << owner, reader, net >>
    /\ SockFrame

\* The hub has put this adapter's value on exgDoneChan
HubDone ==
    /\ ~net.done
    /\ net' = [net EXCEPT !.done = TRUE]
    /\ UNCHANGED << socks, owner, reader, heart >>
    /\ SockFrame

\* case <-doneChan: ticker.Stop(), then closeWS <- true
StopLoop ==
    /\ heart.pc = "select"
    /\ net.done
    /\ heart' = [heart EXCEPT !.pc = "close"]
    /\ UNCHANGED << socks, owner, reader, net >>
    /\ SockFrame

\* closeWS <- true meets case <-closeWS: ws.Close(), break LOOP; runLoop
\* returns
CloseWS ==
    /\ heart.pc = "close"
    /\ owner.pc = "select"
    /\ socks' = [socks EXCEPT ![owner.ws].open = FALSE]
    /\ owner' = [owner EXCEPT !.pc = "exited"]
    /\ heart' = [heart EXCEPT !.pc = "returned"]
    /\ UNCHANGED << reader, net >>
    /\ SockFrame

\* The venue sends a book on a socket that has subscribed
DeliverBook(s) ==
    /\ socks[s].open
    /\ socks[s].sub
    /\ socks[s].book = "none"
    /\ net.books < MaxBooks
    /\ socks' = [socks EXCEPT ![s].book = "pending"]
    /\ net' = [net EXCEPT !.books = @ + 1]
    /\ UNCHANGED << owner, reader, heart >>
    /\ SockFrame

SockInit == TradeIdle /\ HubStart /\ SockStart

SockNext ==
    \/ LendReader
    \/ SetReadDeadline
    \/ ReadMessage
    \/ ReaderReconnect
    \/ HeartReconnect
    \/ Dial
    \/ Tick
    \/ LendHeart
    \/ WriteMessage
    \/ RecvData
    \/ Publish
    \/ HubDone
    \/ StopLoop
    \/ CloseWS
    \/ \E s \in DOMAIN socks : DeliverBook(s)

\* Every goroutine that can take a step is eventually scheduled and a select
\* picks at random among its ready cases; a read that stays blocked ends at
\* its deadline.  The ticker need not fire again, the hub need not shut
\* down, the venue need not send a book.
SockFairness ==
    /\ WF_vars(LendReader)
    /\ WF_vars(SetReadDeadline)
    /\ WF_vars(ReadMessage)
    /\ WF_vars(ReaderReconnect)
    /\ WF_vars(HeartReconnect)
    /\ WF_vars(Dial)
    /\ WF_vars(LendHeart)
    /\ WF_vars(WriteMessage)
    /\ WF_vars(RecvData)
    /\ WF_vars(Publish)
    /\ SF_vars(StopLoop)
    /\ WF_vars(CloseWS)

SockSpec == SockInit /\ [][SockNext]_vars /\ SockFairness

\* ------------------------------------------------ GetOrderStatus on its own
\* The amounts a venue's response can carry, in units of MinOrder
Amounts == -2..2

\* The zero exchange.Order, returned with an error
ZeroOrder == [FilledAmount |-> 0, Status |-> ""]

\* The order_info.do response okcoin unmarshals
OKCoinResponses ==
    [errorCode : {0, 1}, status : {-1, 0, 1, 2, 4, 5}, dealAmount : Amounts]

\* okcoin: Client.GetOrderStatus
OKCoinGetOrderStatus(r) ==
    IF r.errorCode # 0 THEN ZeroOrder
    ELSE [FilledAmount |-> Abs(r.dealAmount),
          Status |-> CASE r.status \in {-1, 2} -> "dead"
                       [] r.status \in {4, 5}  -> ""
                       [] OTHER                -> "live"]

\* The /v1/order/status response bitfinex unmarshals
BitfinexResponses ==
    [message : {"", "error"}, isLive : BOOLEAN, executedAmount : Amounts]

\* bitfinex: Client.GetOrderStatus
BitfinexGetOrderStatus(r) ==
    IF r.message # "" THEN ZeroOrder
    ELSE [FilledAmount |-> Abs(r.executedAmount),
          Status |-> IF r.isLive THEN "live" ELSE "dead"]

\* The getOrder response btcchina unmarshals
BTCChinaResponses ==
    [message : {"", "error"},
     status : {"pending", "open", "cancelled", "closed"},
     amount : Amounts, origAmount : Amounts]

\* btcchina: Client.GetOrderStatus
BTCChinaGetOrderStatus(r) ==
    IF r.message # "" THEN ZeroOrder
    ELSE [FilledAmount |-> r.origAmount - r.amount,
          Status |-> CASE r.status \in {"cancelled", "closed"} -> "dead"
                       [] r.status = "open"                     -> "live"
                       [] OTHER                                 -> ""]

StatusInit == TradeIdle /\ HubStart /\ SockStart

\* order, err := client.GetOrderStatus(id), for each adapter and response
OrderStatus ==
    /\ result = NoResult
    /\ \/ \E r \in OKCoinResponses :
             result' = [op |-> "GetOrderStatus", venue |-> "okcoin",
                        response |-> r, order |-> OKCoinGetOrderStatus(r)]
       \/ \E r \in BitfinexResponses :
             result' = [op |-> "GetOrderStatus", venue |-> "bitfinex",
                        response |-> r, order |-> BitfinexGetOrderStatus(r)]
       \/ \E r \in BTCChinaResponses :
             result' = [op |-> "GetOrderStatus", venue |-> "btcchina",
                        response |-> r, order |-> BTCChinaGetOrderStatus(r)]
    /\ UNCHANGED << cfg, startPos, position, netPosition, pl, lastArb,
                    lastAmount, markets, age, bestBid, bestAsk, amount,
                    pairAmount, pc, fok, traded, cycles, hubVars, sockVars >>

StatusSpec == StatusInit /\ [][OrderStatus]_vars

\* ------------------------------------------------- convertToBook on its own
\* The levels per side an adapter copies from the payload (20 in okcoin and
\* bitfinex, 5 in btcchina), scaled down
BookDepth == 3

\* One side of a venue payload: BookDepth levels in any order, with any
\* amounts
PayloadSides ==
    [1..BookDepth -> [Price : 1..3, Amount : {-1, 1}]]
Payloads ==
    [errorCode : {0, 1}, bids : PayloadSides, asks : PayloadSides]

\* (variant: bids compared as asks are)
BidLess_Ascending(a, b) == a.Price < b.Price

\* BidItems.Less and AskItems.Less
BidLess(a, b) == a.Price > b.Price
AskLess(a, b) == a.Price < b.Price

\* sort.Sort(items): the items in an order in which no item is Less than an
\* item before it; sort.Sort is not stable, so items that are not Less
\* either way come out in any order
SortBids(items) ==
    { q \in { [i \in 1..Len(items) |-> items[p[i]]] : p \in Permutations(1..Len(items)) } :
          \A i, j \in 1..Len(items) : i < j => ~BidLess(q[j], q[i]) }
SortAsks(items) ==
    { q \in { [i \in 1..Len(items) |-> items[p[i]]] : p \in Permutations(1..Len(items)) } :
          \A i, j \in 1..Len(items) : i < j => ~AskLess(q[j], q[i]) }

\* client.convertToBook(data): an error book on an error code, the levels
\* copied and sorted otherwise
ConvertToBook(payload) ==
    IF payload.errorCode # 0
    THEN { [Error |-> TRUE, Bids |-> << >>, Asks |-> << >>] }
    ELSE { [Error |-> FALSE, Bids |-> b, Asks |-> a] :
              b \in SortBids(payload.bids), a \in SortAsks(payload.asks) }

BookInit == TradeIdle /\ HubStart /\ SockStart

\* book := client.convertToBook(data)
Convert ==
    /\ result = NoResult
    /\ \E payload \in Payloads :
          \E book \in ConvertToBook(payload) :
             result' = [op |-> "convertToBook", payload |-> payload,
                        book |-> book]
    /\ UNCHANGED << cfg, startPos, position, netPosition, pl, lastArb,
                    lastAmount, markets, age, bestBid, bestAsk, amount,
                    pairAmount, pc, fok, traded, cycles, hubVars, sockVars >>

BookSpec == BookInit /\ [][Convert]_vars

\* ------------------------------------- the data path without a shutdown
\* The venue served by the polling adapter (bitfinex) and the one served by
\* the streaming adapter (okcoin); a third venue sends no book here
Polling == {1}
Streaming == 2

\* bookChan <- client.convertToBook(data) of the streaming adapter meets the
\* hub's case book := <-bookChan; convertToBook gives an error Book for a
\* payload it cannot use
SockRecvBook ==
    /\ heart.pc = "publish"
    /\ hub.pc = "select"
    /\ fx.pc = "select"
    /\ socks' = [socks EXCEPT ![heart.data].book = "out"]
    /\ heart' = [heart EXCEPT !.pc = "select", !.data = 0]
    /\ \E err \in BOOLEAN :
          /\ adapter' = [adapter EXCEPT
                            ![Streaming].sent = @ + 1,
                            ![Streaming].good = IF err THEN @ ELSE @ + 1]
          /\ hub' = IF IsError(err) THEN hub
                    ELSE [hub EXCEPT !.markets[Streaming] = @ + 1,
                                     !.pc = "notify"]
    /\ UNCHANGED << stdin, chans, strat, fx, owner, reader, net, tradeVars >>

SysInit == TradeIdle /\ HubStart /\ SockStart

SysNext ==
    \/ \E e \in Polling : AdapterSelect(e)
    \/ \E e \in Polling : GetBook(e)
    \/ \E e \in Polling : RecvBook(e)
    \/ Notify
    \/ RequestBook
    \/ ReceiveBook
    \/ Trade
    \/ LendReader
    \/ SetReadDeadline
    \/ ReadMessage
    \/ ReaderReconnect
    \/ HeartReconnect
    \/ Dial
    \/ Tick
    \/ LendHeart
    \/ WriteMessage
    \/ RecvData
    \/ SockRecvBook
    \/ \E s \in DOMAIN socks : DeliverBook(s)

\* The user never types: checkStdin stays in Scanf and no done value is
\* sent.  handleFX answers the hub's price requests; the quotes it takes from
\* the forex poller in between are those of FxSpec.
SysSpec == SysInit /\ [][SysNext]_vars

\* ------------------------------------------- the polling adapter's loop
\* The timestamps slice of getBook: one entry per level of the response (40
\* in the program).  Times are in units of half a second.
NumStamps == 3
HalfSecond == 1
Timestamps == [1..NumStamps -> 0..2]

\* getBook: on a failed request or decoding an error Book and the zero
\* timestamps, else the Book and the timestamps of the response
GetBookStamps(failed, stamps) ==
    IF failed THEN [Error |-> TRUE, timestamps |-> [i \in 1..NumStamps |-> 0]]
    ELSE [Error |-> FALSE, timestamps |-> stamps]

\* (variant: a difference of half a second counts as a change)
BookChanged_AtLeast(timestamps1, timestamps2) ==
    \E i \in 1..NumStamps :
       Abs(timestamps1[i] - timestamps2[i]) >= HalfSecond

\* bookChanged: math.Abs(timestamps1[i]-timestamps2[i]) > .5 for some i
BookChanged(timestamps1, timestamps2) ==
    \E i \in 1..NumStamps :
       Abs(timestamps1[i] - timestamps2[i]) > HalfSecond

PollInit == TradeIdle /\ HubStart /\ SockStart

\* One iteration of the default case of runLoop, entered with any
\* oldTimestamps (the zero slice at first, the previous poll's later): the
\* book is sent on bookChan if bookChanged, and oldTimestamps = newTimestamps
PollOnce ==
    /\ result = NoResult
    /\ \E oldTimestamps \in Timestamps, failed \in BOOLEAN, stamps \in Timestamps :
          LET poll == GetBookStamps(failed, stamps)
          IN  result' = [op |-> "poll", old |-> oldTimestamps,
                         new |-> poll.timestamps, Error |-> poll.Error,
                         sent |-> BookChanged(oldTimestamps, poll.timestamps),
                         oldTimestamps |-> poll.timestamps]
    /\ UNCHANGED << cfg, startPos, position, netPosition, pl, lastArb,
                    lastAmount, markets, age, bestBid, bestAsk, amount,
                    pairAmount, pc, fok, traded, cycles, hubVars, sockVars >>

PollSpec == PollInit /\ [][PollOnce]_vars

\* ------------------------------------------------ the FX price on its own
\* exg.Currency() of a venue
Currency(e) == IF CurrencyCode(e) = 0 THEN "usd" ELSE "cny"

\* The exchanges slice with a venue of each currency: bitfinex(usd) and
\* okcoin(cny)
FxExchanges ==
    [e \in Exchanges |-> IF e % 2 = 1 THEN Bitfinex(2, 0) ELSE OKCoin(3, 1)]

FxInit ==
    /\ cfg = [Config(2, -1, FxExchanges) EXCEPT !.MinOrder = 2, !.MaxOrder = 3]
    /\ startPos = [e \in Exchanges |-> 0]
    /\ position = startPos
    /\ netPosition = 0
    /\ pl = 0
    /\ lastArb = 0
    /\ lastAmount = 0
    /\ markets = << >>
    /\ age = NoAge
    /\ bestBid = NoMarket
    /\ bestAsk = NoMarket
    /\ amount = 0
    /\ pairAmount = 0
    /\ pc = "wait"
    /\ fok = [a \in Actions |-> IdleFok]
    /\ traded = [e \in Exchanges |-> 0]
    /\ cycles = 0
    /\ result = NoResult
    /\ HubStart
    /\ SockStart

\* handleData's requestFX <- book.Exg.Currency() meets handleFX's case
\* symbol := <-requestFX, which answers prices[symbol]; the book is filtered
\* at that price.  fxAge is the time in seconds since the price was stored.
PriceRequest ==
    /\ result = NoResult
    /\ fx.pc = "select"
    /\ \E book \in Books, fxAge \in Ages :
          LET fxPrice == PriceOf(fx.prices, Currency(book.Exg))
          IN  result' = [op |-> "requestFX", book |-> book,
                         symbol |-> Currency(book.Exg), fxPrice |-> fxPrice,
                         fxAge |-> fxAge, fb |-> FilterBook(book, fxPrice)]
    /\ UNCHANGED << cfg, startPos, position, netPosition, pl, lastArb,
                    lastAmount, markets, age, bestBid, bestAsk, amount,
                    pairAmount, pc, fok, traded, cycles, hubVars, sockVars >>

FxSpec == FxInit /\ [][PollerTick \/ FxQuote \/ PriceRequest]_vars

\* ------------------------------------------------------------------ claims
InPair == pc \in {"pair1", "pair2", "first", "second"}
InFlight(a) == fok[a].pc # "idle"

\* C1: each venue's position is its starting position plus the sum of its
\* signed fills (buy fills net of the crypto fee), and at the start of every
\* strategy cycle netPosition is the sum of the venues' positions.
C1_PositionBookkeeping ==
    /\ \A e \in Exchanges : position[e] = startPos[e] + traded[e]
    /\ pc = "wait" => netPosition = CalcNetPosition(position)

\* C2: with every venue starting inside its cap and no fill above the
\* ordered amount, every venue stays inside its cap after every fill.
C2_PositionCap == \A e \in Exchanges : Abs(position[e]) <= MaxPos(e)
\* a fill has been applied and has brought a venue to its cap
C2_Witness ==
    \E e \in Exchanges : traded[e] # 0 /\ Abs(position[e]) = MaxPos(e)

\* C9: findBestArb only returns pairs of two different venues: the pair
\* handed to sendPair never has the same venue on both sides.
C9_DistinctVenues == InPair => bestBid.exg # bestAsk.exg

\* C10: no two fillOrKill goroutines are in flight for the same venue.
C10_OneFokPerVenue ==
    InFlight("buy") /\ InFlight("sell") => fok["buy"].exg # fok["sell"].exg

\* C3 as stated: fillOrKill delivers exactly the filled amount f that the
\* venue reported with "dead", for buys and sells on any venue.
C3_DeliversReported ==
    \A a \in Actions :
        fok[a].pc = "deliver" => fok[a].filledAmount = fok[a].order.FilledAmount

\* C3 amended: after k "live" replies and "dead" with filled amount f,
\* fillOrKill delivers f for a sell and for a buy on a venue without crypto
\* fee, and f * (1 - fee) for a buy on a venue with crypto fee.
C3_DeliversNetFill ==
    \A a \in Actions :
        fok[a].pc = "deliver" =>
            fok[a].filledAmount =
                IF a = "buy" /\ HasCryptoFee(fok[a].exg)
                THEN NetOfFee(fok[a].order.FilledAmount, fok[a].exg)
                ELSE fok[a].order.FilledAmount
\* a buy on a crypto-fee venue, cancelled once, dead with f = 2, delivers 1
C3_Witness ==
    /\ fok["buy"].pc = "deliver"
    /\ HasCryptoFee(fok["buy"].exg)
    /\ fok["buy"].nLive >= 1
    /\ fok["buy"].order.FilledAmount = 2
    /\ fok["buy"].filledAmount = 1

\* A venue call of the goroutine of action a in this step
Call(a, name) == fok[a]' # fok[a] /\ fok[a]'.lastCall = name

\* C4: the venue calls of one fillOrKill follow the protocol: SendOrder is
\* repeated while the id is 0; GetOrderStatus is called only with the
\* non-zero id, first after the send and again only after an unknown status;
\* CancelOrder is called only directly after a "live" status, once; the
\* goroutine leaves the loop only on "dead"; so cancels never exceed lives.
C4_Protocol ==
    [][\A a \in Actions :
          /\ Call(a, "SendOrder") =>
                fok[a].id = 0 /\ fok[a].lastCall \in {"", "SendOrder"}
          /\ Call(a, "GetOrderStatus") =>
                /\ fok[a].id # 0
                /\ fok[a]'.polledId = fok[a].id
                /\ fok[a].lastCall = "GetOrderStatus" => fok[a].order.Status = ""
          /\ Call(a, "CancelOrder") =>
                /\ fok[a].lastCall = "GetOrderStatus"
                /\ fok[a].order.Status = "live"
                /\ fok[a]'.nCancel = fok[a].nCancel + 1
          /\ fok[a].pc = "set" => fok[a].order.Status = "dead"
          /\ fok[a]'.nCancel <= fok[a]'.nLive]_vars
\* a run with a failed send or unknown status, one "live" and its cancel
C4_Witness ==
    \E a \in Actions :
        /\ fok[a].pc = "set"
        /\ fok[a].nRetry = 1
        /\ fok[a].nLive = 1
        /\ fok[a].nCancel = 1

\* C5: on "dead" with filled amount f, fillOrKill changes the target venue's
\* position by +f (buy, no crypto fee), +f*(1 - fee) (buy, crypto fee) or -f
\* (sell) and no other position; with f = 0 the positions are unchanged.
C5_PositionDelta ==
    [][\A a \in Actions :
          fok[a].pc = "set" /\ fok[a]'.pc = "deliver" =>
              LET e == fok[a].exg
                  f == fok[a].order.FilledAmount
                  delta == IF a = "sell" THEN -f
                           ELSE IF HasCryptoFee(e) THEN NetOfFee(f, e) ELSE f
              IN  position' = [position EXCEPT ![e] = @ + delta]]_vars

\* C6: fillOrKill terminates: with a venue that gives an order id after
\* finitely many errors and reports the order dead after finitely many
\* "live" replies, every started fillOrKill delivers a fill; and no "live"
\* status is followed by another status call without a cancel in between.
C6_Terminates ==
    /\ \A a \in Actions : (fok[a].pc = "send") ~> (fok[a].pc = "deliver")
    /\ [][\A a \in Actions :
            Call(a, "GetOrderStatus") /\ fok[a].lastCall = "GetOrderStatus"
                => fok[a].order.Status # "live"]_vars
\* a fill delivered after the venue's last allowed "live" reply
C6_Witness ==
    \E a \in Actions :
        /\ fok[a].pc = "deliver"
        /\ fok[a].nLive = MaxLive
        /\ fok[a].nCancel = MaxLive

\* The leg on the venue of numerically lower priority, and the other one
LowLeg == IF Priority(bestBid.exg) < Priority(bestAsk.exg) THEN "sell" ELSE "buy"
HighLeg == IF LowLeg = "sell" THEN "buy" ELSE "sell"
LegOf(a) == IF a = "sell" THEN bestBid ELSE bestAsk

\* C7: with unequal priorities the leg on the venue of lower priority number
\* runs first and alone; the second leg is started (and so its SendOrder
\* made) only when the first fill has been received, only if that fill
\* reaches MinNetPos, for exactly that fill at its own order price;
\* otherwise sendPair returns without a second order.
C7_SequentialPair ==
    /\ [](pc = "first" =>
            /\ Priority(bestBid.exg) # Priority(bestAsk.exg)
            /\ InFlight(LowLeg)
            /\ fok[LowLeg].exg = LegOf(LowLeg).exg
            /\ ~InFlight(HighLeg))
    /\ [](pc = "second" =>
            /\ ~InFlight(LowLeg)
            /\ InFlight(HighLeg)
            /\ pairAmount >= cfg.MinNetPos
            /\ fok[HighLeg].exg = LegOf(HighLeg).exg
            /\ fok[HighLeg].amount = pairAmount
            /\ fok[HighLeg].price = LegOf(HighLeg).orderPrice)
    /\ [][pc = "first" /\ pc' # "first" =>
            /\ fok[LowLeg].pc = "deliver"
            /\ IF fok[LowLeg].filledAmount >= cfg.MinNetPos
               THEN /\ pc' = "second"
                    /\ pairAmount' = fok[LowLeg].filledAmount
                    /\ fok[HighLeg]'.pc = "send"
               ELSE /\ pc' = "wait"
                    /\ \A a \in Actions : ~InFlight(a)']_vars
\* the first leg was filled for less than ordered and the second leg has
\* sent its order for that fill
C7_Witness ==
    /\ pc = "second"
    /\ pairAmount < amount
    /\ fok[HighLeg].lastCall = "SendOrder"
    /\ fok[HighLeg].amount = pairAmount

\* C8: with equal priorities both fillOrKill goroutines are started before
\* either fill is awaited, sendPair returns only after both fills have been
\* received, and pl is updated once per leg with that leg's fill (buy first).
C8_SimultaneousPair ==
    /\ [](pc \in {"pair1", "pair2"} =>
            Priority(bestBid.exg) = Priority(bestAsk.exg))
    /\ [][/\ pc # "pair1" /\ pc' = "pair1" =>
                fok["buy"]'.pc = "send" /\ fok["sell"]'.pc = "send"
          /\ pc = "pair1" /\ pc' # "pair1" =>
                /\ pc' = "pair2"
                /\ fok["buy"].pc = "deliver"
                /\ pl' = pl - bestAsk.adjPrice * fok["buy"].filledAmount
          /\ pc = "pair2" /\ pc' # "pair2" =>
                /\ pc' = "wait"
                /\ fok["sell"].pc = "deliver"
                /\ pl' = pl + bestBid.adjPrice * fok["sell"].filledAmount
          /\ pc \in {"pair1", "pair2"} /\ pc' = pc => pl' = pl]_vars
\* the sell leg has run to its delivery before the buy leg has made its
\* first venue call, on two different venues
C8_Witness ==
    /\ pc = "pair1"
    /\ bestBid.exg # bestAsk.exg
    /\ fok["sell"].pc = "deliver"
    /\ fok["sell"].filledAmount > 0
    /\ fok["buy"].pc = "send"
    /\ fok["buy"].lastCall = ""

\* The sides the strategy has selected in the cycle in progress (netPosition
\* keeps its value of the start of the cycle until the cycle ends)
SelectedSides ==
    IF netPosition >= cfg.MinNetPos THEN { bestBid }
    ELSE IF netPosition <= -cfg.MinNetPos THEN { bestAsk }
    ELSE { bestBid, bestAsk }
InCycle == pc \notin {"wait", "done"}

\* C11: the strategy never selects an absent side (a zero market, without a
\* venue) and never sends an order for one: in a cycle that goes on to
\* trade, every side it selected is a present side of the snapshot.
C11_NoAbsentSide ==
    InCycle => \A s \in SelectedSides : s.exg # Nil

\* C12: a venue whose book is more than 60 seconds old when the snapshot is
\* built is not in the snapshot and gets no order in that cycle.
C12_StaleLeftOut ==
    \A e \in Exchanges :
        age[e] > 60 =>
            /\ e \notin DOMAIN markets
            /\ \A a \in Actions : fok[a].exg # e
\* an order has been sent to a venue while another venue's book is stale
C12_Witness ==
    \E e \in Exchanges, a \in Actions :
        /\ age[e] > 60
        /\ fok[a].exg \in Exchanges \ {e}
        /\ fok[a].lastCall = "SendOrder"

\* The able venues of the snapshot m that quote a bid, or an ask
SellVenues(m) ==
    { e \in DOMAIN m : m[e].bid.exg # Nil /\ position[e] + MaxPos(e) >= cfg.MinOrder }
BuyVenues(m) ==
    { e \in DOMAIN m : m[e].ask.exg # Nil /\ MaxPos(e) - position[e] >= cfg.MinOrder }
NewCycle == pc = "wait" /\ cycles' = cycles + 1

\* C13: a cycle with netPosition >= MinNetPos (and an able venue quoting a
\* bid) sends exactly one sell FOK, for min(netPosition, best bid amount) at
\* the order price of the best able-to-sell venue, and no pair; the mirror
\* image with netPosition <= -MinNetPos and a buy; a pair is sent only when
\* |netPosition| < MinNetPos.
C13_ExitFirst ==
    /\ [](InPair => Abs(netPosition) < cfg.MinNetPos)
    /\ [](pc = "exitLong" => ~InFlight("buy"))
    /\ [](pc = "exitShort" => ~InFlight("sell"))
    /\ [][pc' # pc /\ pc \in {"exitLong", "exitShort"} => pc' = "wait"]_vars
    /\ [][NewCycle /\ netPosition >= cfg.MinNetPos
                   /\ SellVenues(markets') # {} =>
            /\ pc' = "exitLong"
            /\ \E e \in SellVenues(markets') :
                  /\ \A o \in SellVenues(markets') :
                        markets'[o].bid.adjPrice <= markets'[e].bid.adjPrice
                  /\ fok'["sell"].pc = "send"
                  /\ fok'["sell"].exg = e
                  /\ fok'["sell"].price = markets'[e].bid.orderPrice
                  /\ fok'["sell"].amount =
                        Min(netPosition, Min(markets'[e].bid.amount,
                                             position[e] + MaxPos(e)))
            /\ fok'["buy"].pc = "idle"]_vars
    /\ [][NewCycle /\ netPosition <= -cfg.MinNetPos
                   /\ BuyVenues(markets') # {} =>
            /\ pc' = "exitShort"
            /\ \E e \in BuyVenues(markets') :
                  /\ \A o \in BuyVenues(markets') :
                        markets'[o].ask.adjPrice >= markets'[e].ask.adjPrice
                  /\ fok'["buy"].pc = "send"
                  /\ fok'["buy"].exg = e
                  /\ fok'["buy"].price = markets'[e].ask.orderPrice
                  /\ fok'["buy"].amount =
                        Min(-netPosition, Min(markets'[e].ask.amount,
                                              MaxPos(e) - position[e]))
            /\ fok'["sell"].pc = "idle"]_vars

\* A side of the snapshot m with its amount capped by the venue's capacity
CappedBid(m, e) ==
    [m[e].bid EXCEPT !.amount = Min(@, position[e] + MaxPos(e))]
CappedAsk(m, e) ==
    [m[e].ask EXCEPT !.amount = Min(@, MaxPos(e) - position[e])]
\* The candidate pairs <<bid venue, ask venue>> of the snapshot m and the
\* excess (times ArbScale) of a pair over its needed arb
CandidatePairs(m) == SellVenues(m) \X BuyVenues(m)
Excess(m, p) ==
    ArbScale * (m[p[1]].bid.adjPrice - m[p[2]].ask.adjPrice)
    - CalcNeededArb(p[2], p[1])
GoodPairs(m) == { p \in CandidatePairs(m) : Excess(m, p) >= 0 }
BestPairs(m) ==
    { p \in GoodPairs(m) : \A o \in GoodPairs(m) : Excess(m, o) <= Excess(m, p) }

\* C14: findBestArb reports an opportunity exactly when some pair of an
\* able-to-sell bid venue and an able-to-buy ask venue has
\* bid.adjPrice - ask.adjPrice - neededArb >= 0; it returns a pair of
\* maximal excess with both amounts capped by the venues' capacities, and
\* the pair is traded for min(bid.amount, ask.amount).  (A reported
\* opportunity is traded unless it repeats the last one.)
C14_BestArb ==
    [][NewCycle /\ Abs(netPosition) < cfg.MinNetPos =>
          /\ pc' # "wait" =>
                \E p \in BestPairs(markets') :
                    /\ bestBid' = CappedBid(markets', p[1])
                    /\ bestAsk' = CappedAsk(markets', p[2])
                    /\ amount' = Min(bestBid'.amount, bestAsk'.amount)
          /\ GoodPairs(markets') # {} /\ pc' = "wait" =>
                \E p \in BestPairs(markets') :
                    LET b == CappedBid(markets', p[1])
                        a == CappedAsk(markets', p[2])
                    IN  /\ b.adjPrice - a.adjPrice = lastArb
                        /\ Min(b.amount, a.amount) = lastAmount
                        /\ Min(b.amount, a.amount) # cfg.MaxOrder]_vars

\* C15: findBestBid returns the highest adjusted bid among the venues able
\* to sell MinOrder and findBestAsk the lowest adjusted ask among the venues
\* able to buy MinOrder (a venue without that capacity is passed over), with
\* the amount min(side amount, remaining capacity).
C15_BestBidAsk ==
    [][/\ NewCycle /\ netPosition >= cfg.MinNetPos
                   /\ SellVenues(markets') # {} =>
            \E e \in SellVenues(markets') :
                /\ \A o \in SellVenues(markets') :
                      markets'[o].bid.adjPrice <= markets'[e].bid.adjPrice
                /\ bestBid' = CappedBid(markets', e)
       /\ NewCycle /\ netPosition <= -cfg.MinNetPos
                   /\ BuyVenues(markets') # {} =>
            \E e \in BuyVenues(markets') :
                /\ \A o \in BuyVenues(markets') :
                      markets'[o].ask.adjPrice >= markets'[e].ask.adjPrice
                /\ bestAsk' = CappedAsk(markets', e)]_vars

\* calcNeededArb has been run for a buy venue and a sell venue of the same
\* currency, or of different currencies
RanNeededArb(cross) ==
    /\ result.op = "calcNeededArb"
    /\ (CurrencyCode(result.buyExg) # CurrencyCode(result.sellExg)) = cross
\* (MaxArb + MinArb)/2 + (buyPos/buyMax - sellPos/sellMax) * (MaxArb - MinArb)/4,
\* times ArbScale
BandValue(b, s) ==
    (ArbScale \div (4 * MaxPos(b) * MaxPos(s)))
    * (2 * (cfg.MaxArb + cfg.MinArb) * MaxPos(b) * MaxPos(s)
       + (position[b] * MaxPos(s) - position[s] * MaxPos(b))
         * (cfg.MaxArb - cfg.MinArb))
\* A value given in hundredths of the unit, times ArbScale
Hundredths(x) == x * (ArbScale \div 100)
TestBand == cfg.MaxArb = 2 /\ cfg.MinArb = -1
\* An expected value of a table <<buy position, sell position, hundredths>>
AsTabulated(rows) ==
    \A r \in rows :
        position[result.buyExg] = r[1] /\ position[result.sellExg] = r[2]
            => result.arb = Hundredths(r[3])

\* C16: for legs of one currency calcNeededArb(buy, sell) is
\* (MaxArb + MinArb)/2 + (buyPos/buyMax - sellPos/sellMax)*(MaxArb - MinArb)/4;
\* with MinArb = -1, MaxArb = 2 and maxPos = 500 it gives the values of the
\* test table; it is MaxArb with the buy venue fully long and the sell venue
\* fully short, and MinArb the other way round.
C16_NeededArbSameCurrency ==
    RanNeededArb(FALSE) =>
        LET b == result.buyExg
            s == result.sellExg
        IN  /\ result.arb = BandValue(b, s)
            /\ TestBand => AsTabulated({
                   <<500, -500, 200>>, <<-500, 500, -100>>, <<0, 0, 50>>,
                   <<500, 500, 50>>, <<-100, -100, 50>>, <<250, -250, 125>>,
                   <<-250, 250, -25>>, <<100, -100, 80>>, <<0, -200, 80>>,
                   <<-200, 0, 20>>, <<-100, 100, 20>> })
            /\ position[b] = MaxPos(b) /\ position[s] = -MaxPos(s)
                   => result.arb = ArbScale * cfg.MaxArb
            /\ position[b] = -MaxPos(b) /\ position[s] = MaxPos(s)
                   => result.arb = ArbScale * cfg.MinArb
\* the row (100, -100) -> 0.8 of the test table has been computed
C16_Witness ==
    /\ RanNeededArb(FALSE)
    /\ TestBand
    /\ result.buyExg # result.sellExg
    /\ position[result.buyExg] = 100
    /\ position[result.sellExg] = -100
    /\ result.arb = Hundredths(80)

\* C17: for legs of different currencies, with MinArb = -0.01, MaxArb = 0.02,
\* FXPremium = 0.01 and maxPos = 500, calcNeededArb gives the values of the
\* test table (in units of 0.01): it runs from MinArb to MaxArb + FXPremium.
C17_NeededArbCrossCurrency ==
    RanNeededArb(TRUE) /\ TestBand =>
        AsTabulated({
            <<500, -500, 300>>, <<-500, 500, -100>>, <<0, 0, 100>>,
            <<500, 500, 100>>, <<-100, -100, 100>>, <<-250, 250, 0>>,
            <<250, -250, 200>>, <<100, -100, 140>>, <<0, -200, 140>>,
            <<-200, 0, 60>>, <<-100, 100, 60>> })

RECURSIVE Gathered(_, _)
Gathered(items, k) ==
    IF k = 0 THEN 0
    ELSE Min(cfg.MaxOrder, Gathered(items, k - 1) + items[k].Amount)
\* The part of level k that is taken, and the value of the levels up to k
Take(items, k) == Gathered(items, k) - Gathered(items, k - 1)
RECURSIVE Value(_, _)
Value(items, k) ==
    IF k = 0 THEN 0 ELSE Value(items, k - 1) + items[k].Price * Take(items, k)
\* The levels at which the gathered amount has reached MinOrder
Reached(items) ==
    { k \in 1..Len(items) : Gathered(items, k) >= cfg.MinOrder }
\* A filtered side mk is the side of items for venue e: fee factor num/den
SideAsDocumented(mk, items, e, fxPrice, num, den) ==
    Reached(items) # {} =>
        LET k == CHOOSE x \in Reached(items) : \A y \in Reached(items) : x <= y
        IN  /\ mk.exg = e
            /\ mk.amount = Gathered(items, k)
            /\ mk.amount >= cfg.MinOrder
            /\ mk.amount <= cfg.MaxOrder
            /\ mk.orderPrice = items[k].Price
            /\ mk.adjPrice * mk.amount * den * fxPrice
                   = Value(items, k) * num * AdjScale
RanFilter == result.op = "filterBook"

\* C19: each present side of filterBook's result has as amount the sum of
\* the takes min(MaxOrder - walked, level amount) over the levels walked,
\* between MinOrder and MaxOrder, as order price the price of the first level
\* at which the amount reaches MinOrder, and as adjusted price the
\* take-weighted average price times (1 - fee) for the bid and (1 + fee) for
\* the ask, divided once by the FX price.
C19_FilterFidelity ==
    RanFilter =>
        LET e == result.book.Exg IN
        /\ SideAsDocumented(result.fb.bid, result.book.Bids, e, result.fxPrice,
                            Fee(e)[2] - Fee(e)[1], Fee(e)[2])
        /\ SideAsDocumented(result.fb.ask, result.book.Asks, e, result.fxPrice,
                            Fee(e)[2] + Fee(e)[1], Fee(e)[2])
\* an ask gathered over two levels, the second one cut by MaxOrder, on a
\* venue with a fee and an FX price other than 1
C19_Witness ==
    /\ RanFilter
    /\ result.fxPrice > 1
    /\ Fee(result.book.Exg)[1] > 0
    /\ Len(result.book.Asks) = 2
    /\ result.book.Asks[1].Amount = 1
    /\ result.book.Asks[2].Amount = 4
    /\ result.fb.ask.amount = cfg.MaxOrder
    /\ result.fb.ask.orderPrice = result.book.Asks[2].Price

\* C20: a side whose levels, capped at MaxOrder, never gather MinOrder is
\* left absent (the zero market), whatever the other side is.
C20_AbsentSide ==
    RanFilter =>
        /\ Reached(result.book.Bids) = {} => result.fb.bid = NoMarket
        /\ Reached(result.book.Asks) = {} => result.fb.ask = NoMarket
\* the bids gather less than MinOrder and are left absent while the ask
\* side of the same book is present
C20_Witness ==
    /\ RanFilter
    /\ Len(result.book.Bids) = MaxDepth
    /\ \A i \in 1..Len(result.book.Bids) : result.book.Bids[i].Amount = 1
    /\ Reached(result.book.Bids) = {}
    /\ result.fb.bid = NoMarket
    /\ result.fb.ask.exg = result.book.Exg

\* The candidates findBestArb may report on the snapshot m: <<arb, amount>>
Candidates(m) ==
    { << r.bid.adjPrice - r.ask.adjPrice, Min(r.bid.amount, r.ask.amount) >> :
          r \in { x \in FindBestArb(m) : x.exists } }
\* The pair trade of this step has returned
PairDone == InPair /\ pc' = "wait"

\* C21: lastArb and lastAmount are the arb and amount of the pair trade
\* fired last; a candidate that equals them, with an amount other than
\* MaxOrder, is not sent; every other candidate (a candidate of amount
\* MaxOrder among them) is sent in the cycle that finds it.
C21_FalseRepeat ==
    /\ [][IF PairDone
          THEN /\ lastArb' = bestBid.adjPrice - bestAsk.adjPrice
               /\ lastAmount' = amount
          ELSE UNCHANGED << lastArb, lastAmount >>]_vars
    /\ [][NewCycle /\ Abs(netPosition) < cfg.MinNetPos =>
            IF pc' = "wait"
            THEN Candidates(markets') # {} =>
                    \E c \in Candidates(markets') :
                        /\ c = << lastArb, lastAmount >>
                        /\ c[2] # cfg.MaxOrder
            ELSE LET c == << bestBid'.adjPrice - bestAsk'.adjPrice, amount' >>
                 IN  \/ c # << lastArb, lastAmount >>
                     \/ c[2] = cfg.MaxOrder]_vars
\* a pair has been fired for less than MaxOrder and the next cycle has found
\* the same candidate again and has not sent it
C21_Witness ==
    /\ pc = "wait"
    /\ cycles = 2
    /\ markets # << >>
    /\ lastAmount > 0
    /\ lastAmount < cfg.MaxOrder
    /\ << lastArb, lastAmount >> \in Candidates(markets)

\* A pair trade of the first cycle has returned with both legs filled for
\* the whole amount, on two venues, the buy on a venue without crypto fee
FullFirstPair ==
    /\ pc = "wait"
    /\ cycles = 1
    /\ lastAmount > 0
    /\ \E s \in Exchanges, b \in Exchanges :
          /\ s # b
          /\ ~HasCryptoFee(b)
          /\ traded = [e \in Exchanges |->
                          IF e = s THEN -lastAmount
                          ELSE IF e = b THEN lastAmount ELSE 0]

C23_NotifyNeverBlocks ==
    /\ [](hub.pc = "notify" => ENABLED Notify)
    /\ [][hub.pc = "notify" /\ hub'.pc # "notify"
             => /\ hub'.pc = "select"
                /\ hub'.markets = hub.markets
                /\ IF strat.pc = "range" THEN strat'.pc = "request"
                                         ELSE strat' = strat]_vars
    /\ [][\A e \in Exchanges :
             adapter[e].pc = "send" /\ adapter'[e].pc = "select"
                                    /\ ~adapter[e].err
                => hub'.markets[e] = hub.markets[e] + 1 /\ hub'.pc = "notify"]_vars
    /\ [][strat'.pc = "request" /\ strat.pc \notin {"request", "receive"}
             => strat.pc = "range" /\ hub.pc = "notify" /\ hub'.pc = "select"]_vars

\* A book of venue e was stored after the strategy had read venue e for the
\* snapshot it is deciding on, and its notification was dropped
C23_Witness ==
    /\ strat.pc = "trade"
    /\ hub.pc = "select"
    /\ \E e \in Exchanges : hub.markets[e] > strat.markets[e]

\* The strategy has read at least one venue of the snapshot it is building
\* and not yet all of them
MidSnapshot == strat.pc \in {"request", "receive"} /\ Len(strat.markets) >= 1

\* C24: the strategy's snapshot is a point-in-time copy of the hub's markets:
\* the hub stores no book between the reads of two venues of one snapshot.
C24_PointInTime == [][MidSnapshot => hub'.markets = hub.markets]_vars

\* C25: once checkStdin has seen input, the strategy loop ends and the status
\* is saved, wherever the hub and the strategy were.
C25_ShutdownPersists == (stdin = "returned") ~> (strat.pc = "saved")

\* C26: once the hub has forwarded done and returned, every adapter and the
\* forex poller return; none stays blocked on a send to the goroutine that
\* has returned.
C26_TasksObserveDone ==
    (hub.pc = "returned")
        ~> (/\ \A e \in Exchanges : adapter[e].pc = "returned"
            /\ fx.poller = "returned")

\* The sockets of the adapter that are open
OpenSockets == { s \in DOMAIN socks : socks[s].open }

\* C27: a streaming adapter has at most one open socket at any time, whatever
\* the read errors, ping errors and failed dials or subscriptions.
C27_OneOpenSocket == Cardinality(OpenSockets) <= 1

\* The socket h is the owner's ws, and open
Current(h) == h = owner.ws /\ owner.pc = "select" /\ socks[h].open

\* C28: while the reader or the heartbeat uses a handle it has borrowed (a
\* deadline call, a read, a write), the handle is the owner's current socket
\* and has not been closed.
C28_NoStaleHandle ==
    /\ reader.pc \in {"deadline", "read"} => Current(reader.h)
    /\ heart.pc = "ping" => Current(heart.h)

\* The sockets the adapter can have dialled under the bounds
SocketIds == 1..(2 + 2 * (MaxErrors + MaxTicks))

C30_FilledNonNegative ==
    result.op = "GetOrderStatus" => result.order.FilledAmount >= 0

\* A book convertToBook has returned without error
Converted == result.op = "convertToBook" /\ ~result.book.Error

\* The bids are non-increasing and the asks non-decreasing in price
SortedBook(book) ==
    /\ \A i \in 1..(Len(book.Bids) - 1) : book.Bids[i].Price >= book.Bids[i + 1].Price
    /\ \A i \in 1..(Len(book.Asks) - 1) : book.Asks[i].Price <= book.Asks[i + 1].Price

SameLevels(side, payloadSide) ==
    \E p \in Permutations(1..BookDepth) :
       \A i \in 1..BookDepth : side[i] = payloadSide[p[i]]

C32_ErrorBookIgnored ==
    [][\A e \in Exchanges :
          adapter[e].pc = "send" /\ adapter[e].err /\ adapter'[e].pc = "select"
             => /\ hub'.markets = hub.markets
                /\ hub'.pc = "select"
                /\ strat' = strat]_vars

\* Venue e has sent an error book and nothing else; the hub has received it,
\* holds the venue's first book and the strategy still waits on newBook
C32_Witness ==
    \E e \in Exchanges :
       /\ adapter[e].sent = 1
       /\ hub.markets[e] = 0
       /\ hub.pc = "select"
       /\ strat.pc = "range"
       /\ \A o \in Exchanges : o # e => adapter[o].sent = 0

\* C33: an error quote leaves the prices map as it was, a price request is
\* answered with the price of the last error-free quote of the currency (the
\* start-up quote when there was none), and the price of "usd" is 1 in
\* every state.
C33_ErrorQuoteIgnored ==
    [][/\ fx.prices["usd"] = 1
       /\ (fx.poller = "send" /\ fx.quote.Error /\ fx'.poller = "select")
             => fx'.prices = fx.prices
       /\ (fx.poller = "send" /\ ~fx.quote.Error /\ fx'.poller = "select")
             => fx'.prices = [fx.prices EXCEPT !["cny"] = fx.quote.Price]
       /\ (result = NoResult /\ result' # NoResult)
             => result'.fxPrice = fx.prices[result'.symbol]]_vars
\* a request for the price of "cny" answered after an error quote was received
C33_Witness ==
    /\ fx.sent = 1 /\ fx.quote.Error /\ fx.poller = "select"
    /\ result # NoResult /\ result.op = "requestFX"
    /\ result.symbol = "cny" /\ result.fxPrice = 2

\* C34: when the venue of a book quotes in another currency than "usd" and
\* the price on file for that currency is zero or was stored more than 60
\* seconds ago, both sides of the filtered book are absent.
C34_StaleFxGate ==
    (/\ result # NoResult /\ result.op = "requestFX"
     /\ result.symbol # "usd"
     /\ (result.fxPrice = 0 \/ result.fxAge > 60))
        => result.fb.bid = NoMarket /\ result.fb.ask = NoMarket

\* C35: every ReadMessage of the reader is made on the socket on which the
\* reader has made its last SetReadDeadline, also when the owner has
\* reconnected in between.
C35_DeadlineBeforeRead ==
    [][(reader.pc = "read" /\ reader'.pc # "read")
          => reader.deadline = reader.h]_vars

Polled == result # NoResult /\ result.op = "poll"

StartedLegs == { a \in Actions : fok[a].pc = "idle" /\ fok'[a].pc = "send" }

\* C37: when the strategy sends a pair, every order sendPair starts at once
\* (both legs with equal priorities, the first leg otherwise) is for an
\* amount from MinOrder to MaxOrder.
C37_PairAmountInRange ==
    [][(pc = "wait" /\ pc' \in {"pair1", "first"})
          => /\ StartedLegs # {}
             /\ pc' = "pair1" => StartedLegs = Actions
             /\ \A a \in StartedLegs :
                   /\ fok'[a].amount >= cfg.MinOrder
                   /\ fok'[a].amount <= cfg.MaxOrder]_vars
\* a pair sent for less than MaxOrder, cut down by what a venue is able to
\* buy or sell
C37_Witness ==
    /\ pc \in {"pair1", "first"}
    /\ pairAmount < cfg.MaxOrder
    /\ \E a \in Actions : fok[a].pc = "send" /\ fok[a].amount = pairAmount

\* The strategy has received the last fill of its trade and recomputes
\* netPosition in this step
Recomputes ==
    /\ pc \in {"exitLong", "exitShort", "pair2", "first", "second"}
    /\ pc' = "wait"

\* C38: a fillOrKill blocks in the send on its fill channel only once it has
\* written the position of its venue, and its value is received once; when
\* the strategy recomputes netPosition after the last fill of a trade, the
\* positions it sums hold every fill made so far.
C38_FillAfterPosition ==
    [][/\ \A a \in Actions :
             /\ (fok[a].pc # "deliver" /\ fok'[a].pc = "deliver")
                   => /\ fok[a].pc = "set"
                      /\ position'[fok[a].exg] =
                            NewPosition(a, fok[a].posRead, fok[a].filledAmount)
             /\ (fok[a].pc = "deliver" /\ fok'[a].pc # "deliver")
                   => fok'[a].pc = "idle"
       /\ Recomputes =>
             /\ \A a \in Actions : fok'[a].pc = "idle"
             /\ netPosition' =
                   SumPos([e \in Exchanges |-> startPos[e] + traded[e]],
                          Exchanges)]_vars

\* C39: the order of a net-position exit is for at most |netPosition|, and
\* with a fill of at most the ordered amount netPosition is >= 0 after an
\* exit from a net long position and <= 0 after an exit from a net short
\* one.
C39_ExitKeepsSign ==
    [][/\ (pc = "wait" /\ pc' = "exitLong")
             => /\ netPosition > 0
                /\ fok'["sell"].amount <= netPosition
       /\ (pc = "wait" /\ pc' = "exitShort")
             => /\ netPosition < 0
                /\ fok'["buy"].amount <= -netPosition
       /\ (pc = "exitLong" /\ pc' = "wait")
             => netPosition' >= 0 /\ netPosition' <= netPosition
       /\ (pc = "exitShort" /\ pc' = "wait")
             => netPosition' <= 0 /\ netPosition' >= netPosition]_vars
\* an exit from a net long position whose sell has been filled, at a venue
\* that quoted more than the net position
C39_Witness ==
    /\ pc = "exitLong"
    /\ fok["sell"].pc = "deliver"
    /\ fok["sell"].filledAmount > 0
    /\ bestBid.amount > netPosition

\* The tasks of the data path
Tasks == {"hub", "fxh", "strat", "poll", "owner", "reader", "heart"}

\* The task is at the select or range where it waits to be talked to
Idle(t) ==
    CASE t = "hub"    -> hub.pc = "select"
      [] t = "fxh"    -> fx.pc = "select"
      [] t = "strat"  -> strat.pc = "range"
      [] t = "owner"  -> owner.pc = "select"
      [] t = "heart"  -> heart.pc = "select"
      [] OTHER        -> FALSE

\* The task computes or waits for the network, for no other task
Running(t) ==
    CASE t = "strat"  -> strat.pc = "trade"
      [] t = "poll"   -> \A e \in Polling : adapter[e].pc \in {"select", "getBook"}
      [] t = "owner"  -> owner.pc = "dial"
      [] t = "reader" -> reader.pc \in {"deadline", "read"}
      [] t = "heart"  -> heart.pc = "ping"
      [] OTHER        -> FALSE

\* The task is in a channel operation and the other side is there (the
\* hub's notification goes through whenever Notify can be taken)
Ready(t) ==
    CASE t = "hub"    -> \/ hub.pc = "notify" /\ ENABLED Notify
                         \/ hub.pc = "reply" /\ strat.pc = "receive"
      [] t = "strat"  -> \/ strat.pc = "request" /\ hub.pc = "select"
                         \/ strat.pc = "receive" /\ hub.pc = "reply"
      [] t = "poll"   -> \E e \in Polling :
                            /\ adapter[e].pc = "send"
                            /\ hub.pc = "select" /\ fx.pc = "select"
      [] t = "reader" -> \/ reader.pc \in {"askDeadline", "askRead"}
                            /\ owner.pc = "select"
                         \/ reader.pc = "reconnect" /\ owner.pc = "select"
                         \/ reader.pc = "data" /\ heart.pc = "select"
      [] t = "heart"  -> \/ heart.pc \in {"askPing", "reconnect"}
                            /\ owner.pc = "select"
                         \/ heart.pc = "publish"
                            /\ hub.pc = "select" /\ fx.pc = "select"
      [] OTHER        -> FALSE

\* The task on the other side of the channel operation a task is in
Partner(t) ==
    CASE t = "hub"    -> "strat"
      [] t = "strat"  -> "hub"
      [] t = "poll"   -> "hub"
      [] t = "reader" -> IF reader.pc = "data" THEN "heart" ELSE "owner"
      [] t = "heart"  -> IF heart.pc = "publish" THEN "hub" ELSE "owner"
      [] OTHER        -> t

\* The tasks that can go on: those idle, running or ready, and, round after
\* round, those whose partner is busy with something it can finish.  Three
\* rounds cover the longest chain: the reader waits for the dispatch loop,
\* which waits for the hub, which waits for the strategy.
RECURSIVE Alive(_)
Alive(n) ==
    IF n = 0
    THEN { t \in Tasks : Idle(t) \/ Running(t) \/ Ready(t) }
    ELSE LET A == Alive(n - 1)
         IN  A \cup { t \in Tasks : Partner(t) \in A /\ ~Idle(Partner(t)) }

\* C40: while no shutdown is requested, in every state some task of hub, FX
\* handler, strategy and adapters can take a step and no task waits in a
\* channel operation that the other side cannot come to; and the entry the
\* strategy receives for a venue is that of the last error-free book the hub
\* has received from the venue, whether its notification was sent or not.
C40_NoDeadlock ==
    /\ []((stdin = "scan" /\ ~net.done) =>
            /\ \E t \in Tasks : Running(t) \/ Ready(t)
            /\ Alive(3) = Tasks)
    /\ [][(hub.pc = "reply" /\ hub'.pc = "select") =>
            /\ Len(strat'.markets) = Len(strat.markets) + 1
            /\ strat'.markets[Len(strat'.markets)] = adapter[hub.exg].good]_vars
\* the strategy is in its first iteration and has received the books of the
\* polled and the streaming venue: one of them came in after the iteration
\* had started and its notification was dropped
C40_Witness ==
    /\ strat.pc = "trade"
    /\ strat.n = 1
    /\ hub.pc = "select"
    /\ \A e \in Polling \cup {Streaming} :
          /\ adapter[e].good = 1
          /\ strat.markets[e] = 1

====
